---- MODULE Spec2Model ----
(***************************************************************************)
(* ng2-rike: the target/operation lifecycle of src/bundles/ng2-rike.devel.js *)
(* (module "ng2-rike/rike") with the event classes of "ng2-rike/event".     *)
(*                                                                         *)
(* One Rike service owns a global event emitter and a fixed set of         *)
(* targets; each target owns its emitter and the four fields of its        *)
(* in-flight record (_operation, _response, _observer, _subscr).           *)
(* Verb methods, cancel(), subscriptions to the returned response streams  *)
(* and transport deliveries are the actions.                               *)
(*                                                                         *)
(* The emitters are Angular EventEmitters, i.e. RxJS Subjects: emit() is   *)
(* next(); after error() the subject is stopped and every later next(),    *)
(* error() and complete() on it is dropped.  The response observers are    *)
(* RxJS Subscribers: after error() or complete() they are closed and drop  *)
(* every later notification.                                               *)
(***************************************************************************)
EXTENDS Integers, Sequences, FiniteSets, TLC

\* ------------------------------------------------------------------ bounds
\* The application makes at most MaxApiCalls calls into the library: verb
\* methods, cancel() and subscriptions to the returned response streams.
MaxApiCalls == 4

\* The URLs given to relativeUrl have at most MaxUrlLen characters.
MaxUrlLen == 5

\* The arrays given to toErrorResponse have at most MaxItems items.
MaxItems == 2

\* The application constructs at most MaxProtocols protocol nodes.
MaxProtocols == 2

\* The application constructs at most MaxRikes services and MaxTargets
\* targets.
MaxRikes == 2
MaxTargets == 6

\* The emitters deliver at most MaxEvents events to the status aggregator.
MaxEvents == 3

\* The targets the service has created, both by rike.target(x), without a
\* protocol.
Targets == {"users", "orders"}

\* options.defaultErrorHandler is configured.
defaultErrorHandler == TRUE

\* The operation the application runs on each target: on "users"
\* target.operation("read"), which inherits the target's protocol; on
\* "orders" target.json("save"), bound to the JSON protocol, which has no
\* error handler of its own.
OperationOf(t) == IF t = "users" THEN "read" ELSE "save"

\* ------------------------------------------------------------------ values
\* Every JavaScript value the lifecycle passes around, as [kind, id].
Undefined == [kind |-> "undefined", id |-> 0]
CancelString == [kind |-> "string:cancel", id |-> 0]
StartEventRef(c) == [kind |-> "startEvent", id |-> c]
CancelEventRef(c) == [kind |-> "cancelEvent", id |-> c]
HttpResponse(o) == [kind |-> "httpResponse", id |-> o]
HttpError(o) == [kind |-> "httpError", id |-> o]
Exception(what, id) == [kind |-> what, id |-> id]

\* protocol.readResponse of a response that decodes; the handler of
\* protocol.handleError applied to an error.
readResponse(httpResponse) == [kind |-> "decoded", id |-> httpResponse.id]
handleError(error) == [kind |-> "errorResponse", id |-> error.id]

\* ------------------------------------------------------------------ events
\* The private fields of the event classes; call is the verb invocation
\* whose start event (or whose operation argument) the event was built from.
RikeOperationEvent(t, op, c) ==
    [class |-> "start", target |-> t, operation |-> op, call |-> c,
     error |-> Undefined, cancelledBy |-> Undefined, result |-> Undefined]

RikeSuccessEvent(t, op, c, result) ==
    [class |-> "success", target |-> t, operation |-> op, call |-> c,
     error |-> Undefined, cancelledBy |-> Undefined, result |-> result]

RikeErrorEvent(t, op, c, error) ==
    [class |-> "error", target |-> t, operation |-> op, call |-> c,
     error |-> error, cancelledBy |-> Undefined, result |-> Undefined]

\* _super.call(this, operation, _cancelledBy || "cancel"); this._cancelledBy = _cancelledBy
RikeCancelEvent(t, op, c, cancelledBy) ==
    [class |-> "cancel", target |-> t, operation |-> op, call |-> c,
     error |-> IF cancelledBy = Undefined THEN CancelString ELSE cancelledBy,
     cancelledBy |-> cancelledBy, result |-> Undefined]

\* The getters.
EventComplete(e) == e.class # "start"
EventCancel(e) == e.class = "cancel"
EventCancelledBy(e) == IF e.class = "cancel" THEN e.cancelledBy ELSE Undefined
EventError(e) ==
    IF e.class = "cancel" THEN EventCancelledBy(e)
    ELSE IF e.class = "error" THEN e.error
    ELSE Undefined
EventResult(e) == IF e.class = "success" THEN e.result ELSE Undefined

\* ------------------------------------------------------------------- state
VARIABLES
    target,               \* target[t]: _operation, _response, _observer, _subscr (0 = undefined)
    calls,                \* the verb invocations so far
    observers,            \* the response observers, one per effective subscribe
    emitted,              \* emitted[t]: the emit()/error() calls on target t's emitter
    stopped,              \* stopped[t]: target t's emitter has errored
    globalEvents,         \* what the service's global emitter delivered
    globalStopped,        \* the global emitter has errored
    lastCall,             \* the step just taken: what ran, on what, and its outcome
    apiCalls,             \* how many calls into the library were made
    arg,                  \* the arguments a library function is called with
    result,               \* what that function returned or raised
    protocols,            \* the protocol nodes constructed so far
    rikes,                \* the Rike services constructed so far: _uniqueIdSeq
    created,              \* the targets constructed so far, in order of construction
    rikeStatus,           \* the RikeStatus: _targetStatuses, _labels, _combined
    applied               \* the events applied to the RikeStatus so far

vars == <<target, calls, observers, emitted, stopped,
          globalEvents, globalStopped, lastCall, apiCalls,
          arg, result, protocols, rikes, created, rikeStatus, applied>>

\* The services and targets constructed, and the status aggregator.
statusVars == <<rikes, created, rikeStatus, applied>>

\* What the target lifecycle leaves alone.
functionVars == <<arg, result, protocols, statusVars>>

\* The part of the state the handlers read and write.
World ==
    [target |-> target, observers |-> observers, emitted |-> emitted,
     stopped |-> stopped, globalEvents |-> globalEvents,
     globalStopped |-> globalStopped]

Idle == [operation |-> 0, response |-> 0, observer |-> 0, subscr |-> 0]

\* lastCall: api is the method or callback that ran, id the verb invocation
\* or observer it ran for, input what the environment made of it (the setup
\* stage that throws, whether the response decodes), ret and threw what it
\* returned and raised, operation and mark the target's _operation and the
\* number of calls on its emitter before it ran.
CallRecord(api, t, id, input, ret, threw) ==
    [api |-> api, target |-> t, id |-> id, input |-> input, ret |-> ret,
     threw |-> threw, operation |-> target[t].operation, mark |-> Len(emitted[t])]

NoCall ==
    [api |-> "none", target |-> "none", id |-> 0, input |-> "none", ret |-> "none",
     threw |-> Undefined, operation |-> 0, mark |-> 0]

\* Rike.target(target, protocol): without a protocol HTTP_PROTOCOL is used;
\* the default handler is attached when the protocol has none and one is
\* configured.
TargetHandler(t) == IF defaultErrorHandler THEN "default" ELSE "none"

\* RikeTargetImpl.operation(name, protocol): without a protocol the target's
\* is used; otherwise the handler is the given protocol's own (JSON: none).
OperationHandler(t, op) ==
    IF op = "read" THEN TargetHandler(t) ELSE "none"

\* No target has been used yet.
InitLifecycle ==
    /\ target = [t \in Targets |-> Idle]
    /\ calls = <<>>
    /\ observers = <<>>
    /\ emitted = [t \in Targets |-> <<>>]
    /\ stopped = [t \in Targets |-> FALSE]
    /\ globalEvents = <<>>
    /\ globalStopped = FALSE
    /\ lastCall = NoCall
    /\ apiCalls = 0

\* new RikeTargetImpl(rike, internals, target, protocol): the target takes
\* the next identifier of the service that constructs it.
RikeTargetImpl(r, uniqueId) == [rike |-> r, uniqueId |-> uniqueId]

\* One service has constructed the two targets, "users" first; there is no
\* status aggregator.
InitRike ==
    /\ rikes = <<[_uniqueIdSeq |-> 2]>>
    /\ created = <<RikeTargetImpl(1, "1"), RikeTargetImpl(1, "2")>>
    /\ rikeStatus = <<>>
    /\ applied = <<>>

Init ==
    /\ InitLifecycle
    /\ InitRike
    /\ arg = <<>>
    /\ result = <<>>
    /\ protocols = <<>>

\* ---------------------------------------------------------------- emitters
\* The global emitter's next()/error(), reached through the subscription
\* Rike.target makes on every target's emitter.
GlobalDeliver(W, chan, ev) ==
    IF W.globalStopped THEN W
    ELSE [W EXCEPT !.globalEvents = Append(@, [chan |-> chan, event |-> ev]),
                   !.globalStopped = (chan = "error")]

\* target.rikeEvents.emit(ev)
rikeEvents_emit(W, t, ev) ==
    LET W1 == [W EXCEPT !.emitted[t] = Append(@, [chan |-> "next", event |-> ev])]
    IN  IF W.stopped[t] THEN W1 ELSE GlobalDeliver(W1, "next", ev)

\* target.rikeEvents.error(ev)
rikeEvents_error(W, t, ev) ==
    LET W1 == [W EXCEPT !.emitted[t] = Append(@, [chan |-> "error", event |-> ev])]
    IN  IF W.stopped[t] THEN W1
        ELSE GlobalDeliver([W1 EXCEPT !.stopped[t] = TRUE], "error", ev)

\* What a subscriber of target t's emitter has been delivered: the calls up
\* to and including the first error().
RECURSIVE Delivered(_)
Delivered(log) ==
    IF log = <<>> THEN <<>>
    ELSE IF Head(log).chan = "error" THEN <<Head(log)>>
    ELSE <<Head(log)>> \o Delivered(Tail(log))

\* --------------------------------------------------------------- observers
\* responseObserver.next(value): a closed Subscriber drops it; otherwise its
\* next callback runs, and when that throws the Subscriber unsubscribes
\* itself and raises what was thrown.
observer_next(W, o, value) ==
    IF W.observers[o].closed THEN [W |-> W, threw |-> Undefined]
    ELSE [W |-> [W EXCEPT !.observers[o].closed =
                              (W.observers[o].nextCallback = "throws"),
                          !.observers[o].received =
                              Append(@, [kind |-> "next", value |-> value])],
          threw |-> IF W.observers[o].nextCallback = "throws"
                    THEN Exception("observerNext", o) ELSE Undefined]

\* responseObserver.error(err): a closed Subscriber drops it; otherwise the
\* observer is closed and its error callback runs, which may throw.
observer_error(W, o, err) ==
    IF W.observers[o].closed THEN [W |-> W, threw |-> Undefined]
    ELSE [W |-> [W EXCEPT !.observers[o].closed = TRUE,
                          !.observers[o].received =
                              Append(@, [kind |-> "error", value |-> err])],
          threw |-> IF W.observers[o].errorCallback = "throws"
                    THEN Exception("observerError", o) ELSE Undefined]

\* responseObserver.complete()
observer_complete(W, o) ==
    IF W.observers[o].closed THEN W
    ELSE [W EXCEPT !.observers[o].closed = TRUE,
                   !.observers[o].received =
                       Append(@, [kind |-> "complete", value |-> Undefined])]

\* The unsubscribe() of the Subscriber the caller's subscribe() returned:
\* the Subscriber is closed; the function given to new Observable returned
\* no teardown, so nothing else runs.
observer_unsubscribe(W, o) == [W EXCEPT !.observers[o].closed = TRUE]

\* if (this._subscr) { this._subscr.unsubscribe(); this._subscr = undefined; }
unsubscribe(W, t) ==
    IF W.target[t].subscr = 0 THEN W
    ELSE [W EXCEPT !.observers[W.target[t].subscr].live = FALSE,
                   !.target[t].subscr = 0]

\* ------------------------------------------------------------ RikeTargetImpl
\* get currentOperation(): this._operation && this._operation.operation
currentOperation(t) ==
    IF target[t].operation = 0 THEN "undefined"
    ELSE calls[target[t].operation].operation

\* The observer branch of _cancel with a catch that re-raises without
\* emitting the error event.
cancelObserverWithoutErrorEvent(W, t, cause) ==
    LET c == W.target[t].operation
        o == W.target[t].observer
        op == calls[c].operation
        d == observer_error(W, o, CancelEventRef(c))
        Wa == IF d.threw = Undefined
              THEN rikeEvents_error(d.W, t, RikeCancelEvent(t, op, c, cause))
              ELSE d.W
        Wb == observer_complete([Wa EXCEPT !.target[t].operation = 0], o)
    IN  [W |-> [Wb EXCEPT !.target[t].observer = 0], threw |-> d.threw]

\* The try/catch/finally of _cancel that runs when an observer is attached.
cancelObserver(W, t, cause) ==
    LET c == W.target[t].operation
        o == W.target[t].observer
        op == calls[c].operation
        d == observer_error(W, o, CancelEventRef(c))
        Wa == IF d.threw = Undefined
              THEN rikeEvents_error(d.W, t, RikeCancelEvent(t, op, c, cause))
              ELSE rikeEvents_error(d.W, t, RikeErrorEvent(t, op, c, d.threw))
        Wb == observer_complete([Wa EXCEPT !.target[t].operation = 0], o)
    IN  [W |-> [Wb EXCEPT !.target[t].observer = 0], threw |-> d.threw]

\* _cancel past its early return: ret is what it returns, threw what it raises.
cancelActive(W, t, cause) ==
    LET W1 == [W EXCEPT !.target[t].response = 0]
        r == IF W1.target[t].observer = 0
             THEN [W |-> W1, threw |-> Undefined]
             ELSE cancelObserver(W1, t, cause)
    IN  [W |-> unsubscribe(r.W, t),
         ret |-> IF r.threw = Undefined THEN "true" ELSE "none",
         threw |-> r.threw]

\* _cancel without its early return on an idle target.
cancelWithoutIdleCheck(W, t, cause) ==
    IF W.target[t].operation = 0
    THEN [W |-> unsubscribe([W EXCEPT !.target[t].response = 0], t),
          ret |-> "true", threw |-> Undefined]
    ELSE cancelActive(W, t, cause)

\* RikeTargetImpl._cancel(cause)
_cancel(W, t, cause) ==
    IF W.target[t].operation = 0
    THEN [W |-> W, ret |-> "false", threw |-> Undefined]
    ELSE cancelActive(W, t, cause)

\* RikeTargetImpl.startOperation(operation); c is the new invocation.
startOperation(W, t, op, c) ==
    LET r == _cancel(W, t, StartEventRef(c))
    IN  IF r.threw # Undefined THEN [W |-> r.W, threw |-> r.threw]
        ELSE [W |-> [rikeEvents_emit(r.W, t, RikeOperationEvent(t, op, c))
                         EXCEPT !.target[t].operation = c],
              threw |-> Undefined]

\* RikeTargetImpl.wrapResponse(operation, response): this._response = response
wrapResponse(W, t, c) == [W EXCEPT !.target[t].response = c]

\* A cleanup that clears the record of every target of the service.
cleanupEveryTarget(W, t) ==
    unsubscribe([W EXCEPT !.target = [u \in DOMAIN W.target |->
                     [W.target[u] EXCEPT !.response = 0, !.operation = 0]]], t)

\* cleanup() of wrapResponse
cleanup(W, t) ==
    unsubscribe([W EXCEPT !.target[t].response = 0,
                          !.target[t].operation = 0], t)

\* --------------------------------------------------------- RikeOperationImpl
\* What the setup of verb invocation c raises: requestOptions runs the
\* prepare hook, writeRequest the write hook, requestUrl needs a URL.
SetupException(setup, c) ==
    IF setup = "ok" THEN Undefined ELSE Exception("setupError", c)

\* A verb method whose catch re-raises without emitting the error event.
verbMethodWithoutErrorEvent(W, t, op, c, setup) ==
    LET s == startOperation(W, t, op, c)
        e == IF s.threw # Undefined THEN s.threw ELSE SetupException(setup, c)
    IN  IF e = Undefined
        THEN [W |-> wrapResponse(s.W, t, c), threw |-> Undefined]
        ELSE [W |-> s.W, threw |-> e]

\* The template all eight verb methods share.
verbMethod(W, t, op, c, setup) ==
    LET s == startOperation(W, t, op, c)
        e == IF s.threw # Undefined THEN s.threw ELSE SetupException(setup, c)
    IN  IF e = Undefined
        THEN [W |-> wrapResponse(s.W, t, c), threw |-> Undefined]
        ELSE [W |-> rikeEvents_error(s.W, t, RikeErrorEvent(t, op, c, e)),
              threw |-> e]

\* ----------------------------------------------------------------- actions
SetWorld(W) ==
    /\ target' = W.target
    /\ observers' = W.observers
    /\ emitted' = W.emitted
    /\ stopped' = W.stopped
    /\ globalEvents' = W.globalEvents
    /\ globalStopped' = W.globalStopped

ApiCall ==
    /\ apiCalls < MaxApiCalls
    /\ apiCalls' = apiCalls + 1

NoWrite == {"ok", "prepareRequest", "requestUrl"}
WithWrite == NoWrite \cup {"writeRequest"}

\* The verb invocation in flight on target t (0: none): started, its
\* response stream wired, and not yet completed, failed or cancelled.
InFlight(t) ==
    IF target[t].operation # 0 /\ target[t].response = target[t].operation
    THEN target[t].operation ELSE 0

\* A verb method of the operation of target t is invoked.
VerbStep(api, t, setups) ==
    /\ ApiCall
    /\ \E setup \in setups :
        LET c == Len(calls) + 1
            r == verbMethod(World, t, OperationOf(t), c, setup)
        IN  /\ SetWorld(r.W)
            /\ calls' = Append(calls, [target |-> t, operation |-> OperationOf(t),
                                       wrapped |-> r.threw = Undefined,
                                       superseded |-> InFlight(t),
                                       cancelled |-> FALSE])
            /\ lastCall' = CallRecord(api, t, c, setup,
                                IF r.threw = Undefined THEN "observable" ELSE "none",
                                r.threw)
    /\ UNCHANGED functionVars

load(t) == VerbStep("load", t, NoWrite)
send(t) == VerbStep("send", t, WithWrite)
get(t) == VerbStep("get", t, NoWrite)
post(t) == VerbStep("post", t, WithWrite)
put(t) == VerbStep("put", t, WithWrite)
delete(t) == VerbStep("delete", t, NoWrite)
patch(t) == VerbStep("patch", t, WithWrite)
head(t) == VerbStep("head", t, NoWrite)

\* RikeTargetImpl.cancel()
cancel(t) ==
    /\ ApiCall
    /\ LET r == _cancel(World, t, Undefined)
       IN  /\ SetWorld(r.W)
           /\ lastCall' = CallRecord("cancel", t, target[t].operation, "none",
                                      r.ret, r.threw)
    /\ calls' = IF target[t].operation = 0 THEN calls
                ELSE [calls EXCEPT ![target[t].operation].cancelled = TRUE]
    /\ UNCHANGED functionVars

\* The function given to new Observable without its check of _response.
subscribeFnWithoutResponseCheck(W, c, o) ==
    [W EXCEPT !.target[calls[c].target].observer = o,
              !.target[calls[c].target].subscr = o]

\* The function wrapResponse gives to new Observable, run for a subscriber
\* of the stream verb invocation c returned.
subscribeFn(W, c, o) ==
    IF W.target[calls[c].target].response # c THEN W
    ELSE [W EXCEPT !.target[calls[c].target].observer = o,
                   !.target[calls[c].target].subscr = o]

\* The caller subscribes to the stream verb invocation c returned.
subscribe(c) ==
    /\ ApiCall
    /\ c \in 1..Len(calls)
    /\ calls[c].wrapped
    /\ LET o == Len(observers) + 1
           W == subscribeFn(World, c, o)
       IN  IF W.target[calls[c].target].subscr # o
           THEN /\ UNCHANGED <<target, observers>>
                /\ lastCall' = CallRecord("subscribe", calls[c].target, c, "none",
                                           "ignored", Undefined)
           ELSE \E errorCallback \in {"handles", "throws"},
                   nextCallback \in {"handles", "throws"} :
                /\ target' = W.target
                /\ observers' = Append(observers,
                       [call |-> c, errorCallback |-> errorCallback,
                        nextCallback |-> nextCallback, closed |-> FALSE,
                        received |-> <<>>, live |-> TRUE, responded |-> FALSE])
                /\ lastCall' = CallRecord("subscribe", calls[c].target, c,
                                           errorCallback, "subscribed", Undefined)
    /\ UNCHANGED <<calls, emitted, stopped, globalEvents, globalStopped, functionVars>>

\* A next callback that forwards the undecoded response when readResponse throws.
onNextForwardingUndecoded(W, o, decodes) ==
    LET c == W.observers[o].call
        t == calls[c].target
        op == calls[c].operation
        d == observer_next(W, o, readResponse(HttpResponse(o)))
    IN  IF decodes
        THEN IF d.threw = Undefined
             THEN rikeEvents_emit(d.W, t, RikeSuccessEvent(t, op, c,
                                              readResponse(HttpResponse(o))))
             ELSE rikeEvents_error(d.W, t, RikeErrorEvent(t, op, c, d.threw))
        ELSE rikeEvents_error(observer_next(W, o, HttpResponse(o)).W, t,
                              RikeErrorEvent(t, op, c, Exception("decodeError", o)))

\* The next callback of response.subscribe in wrapResponse.
onNext(W, o, decodes) ==
    LET c == W.observers[o].call
        t == calls[c].target
        op == calls[c].operation
        d == observer_next(W, o, readResponse(HttpResponse(o)))
    IN  IF decodes
        THEN IF d.threw = Undefined
             THEN rikeEvents_emit(d.W, t, RikeSuccessEvent(t, op, c,
                                              readResponse(HttpResponse(o))))
             ELSE rikeEvents_error(d.W, t, RikeErrorEvent(t, op, c, d.threw))
        ELSE rikeEvents_error(W, t, RikeErrorEvent(t, op, c, Exception("decodeError", o)))

\* The error callback of response.subscribe in wrapResponse.
onError(W, o) ==
    LET c == W.observers[o].call
        t == calls[c].target
        op == calls[c].operation
        d == observer_error(W, o, HttpError(o))
        W1 == IF d.threw = Undefined
              THEN rikeEvents_emit(d.W, t, RikeErrorEvent(t, op, c, HttpError(o)))
              ELSE rikeEvents_error(d.W, t, RikeErrorEvent(t, op, c, d.threw))
    IN  cleanup(W1, t)

\* The complete callback of response.subscribe in wrapResponse.
onComplete(W, o) ==
    cleanup(observer_complete(W, o), calls[W.observers[o].call].target)

\* The target of the operation observer o subscribed to.
TargetOf(o) == calls[observers[o].call].target

\* The caller unsubscribes observer o from the response stream.
unsubscribeCaller(o) ==
    /\ ApiCall
    /\ o \in 1..Len(observers)
    /\ SetWorld(observer_unsubscribe(World, o))
    /\ lastCall' = CallRecord("unsubscribe", TargetOf(o), o, "none", "none", Undefined)
    /\ UNCHANGED <<calls, functionVars>>

\* The transport delivers the response on live subscription o; a request
\* gets at most one response.
httpNext(o) ==
    /\ o \in 1..Len(observers)
    /\ observers[o].live
    /\ ~observers[o].responded
    /\ \E decodes \in BOOLEAN :
        /\ SetWorld(onNext([World EXCEPT !.observers[o].responded = TRUE], o, decodes))
        /\ lastCall' = CallRecord("httpNext", TargetOf(o), o,
                                   IF decodes THEN "decodes" ELSE "readResponseThrows",
                                   "none", Undefined)
    /\ UNCHANGED <<calls, apiCalls, functionVars>>

\* The transport fails on live subscription o, which ends it.
httpError(o) ==
    /\ o \in 1..Len(observers)
    /\ observers[o].live
    /\ SetWorld(onError([World EXCEPT !.observers[o].live = FALSE], o))
    /\ lastCall' = CallRecord("httpError", TargetOf(o), o, "none", "none", Undefined)
    /\ UNCHANGED <<calls, apiCalls, functionVars>>

\* The transport completes live subscription o, which ends it.
httpComplete(o) ==
    /\ o \in 1..Len(observers)
    /\ observers[o].live
    /\ SetWorld(onComplete([World EXCEPT !.observers[o].live = FALSE], o))
    /\ lastCall' = CallRecord("httpComplete", TargetOf(o), o, "none", "none", Undefined)
    /\ UNCHANGED <<calls, apiCalls, functionVars>>

Next ==
    \/ \E t \in Targets : load(t)
    \/ \E t \in Targets : send(t)
    \/ \E t \in Targets : get(t)
    \/ \E t \in Targets : post(t)
    \/ \E t \in Targets : put(t)
    \/ \E t \in Targets : delete(t)
    \/ \E t \in Targets : patch(t)
    \/ \E t \in Targets : head(t)
    \/ \E t \in Targets : cancel(t)
    \/ \E c \in 1..MaxApiCalls : subscribe(c)
    \/ \E o \in 1..MaxApiCalls : unsubscribeCaller(o)
    \/ \E o \in 1..MaxApiCalls : httpNext(o)
    \/ \E o \in 1..MaxApiCalls : httpError(o)
    \/ \E o \in 1..MaxApiCalls : httpComplete(o)

Spec == Init /\ [][Next]_vars

\* ======================================================= ng2-rike/options
\* JavaScript values, tagged with their type.
JsUndefined == [type |-> "undefined"]
JsNull == [type |-> "null"]
JsString(s) == [type |-> "string", str |-> s]
JsNumber(n) == [type |-> "number", num |-> n]
JsBoolean(b) == [type |-> "boolean", bool |-> b]

\* ToBoolean of a value: !!v
Truthy(v) ==
    CASE v.type \in {"undefined", "null"} -> FALSE
      [] v.type = "string" -> v.str # ""
      [] v.type = "number" -> v.num # 0
      [] v.type = "boolean" -> v.bool
      [] OTHER -> TRUE

\* The characters the regular expression class \w matches.
WordChars ==
    {"a", "b", "c", "d", "e", "f", "g", "h", "i", "j", "k", "l", "m",
     "n", "o", "p", "q", "r", "s", "t", "u", "v", "w", "x", "y", "z",
     "A", "B", "C", "D", "E", "F", "G", "H", "I", "J", "K", "L", "M",
     "N", "O", "P", "Q", "R", "S", "T", "U", "V", "W", "X", "Y", "Z",
     "0", "1", "2", "3", "4", "5", "6", "7", "8", "9", "_"}

\* Whether string s has string prefix at position i (1-based).
HasAt(s, i, prefix) ==
    /\ i + Len(prefix) - 1 <= Len(s)
    /\ SubSeq(s, i, i + Len(prefix) - 1) = prefix

\* The length of the longest prefix of s made of \w characters.
RECURSIVE WordPrefixLen(_)
WordPrefixLen(s) ==
    IF s # "" /\ Head(s) \in WordChars THEN 1 + WordPrefixLen(Tail(s)) ELSE 0

\* url.match(/^(\w*:)?\/\//): \w* takes the whole word prefix, since the
\* character after it has to be ":".
MatchesFullUrl(s) ==
    \/ HasAt(s, 1, "//")
    \/ HasAt(s, WordPrefixLen(s) + 1, "://")

\* relativeUrl(baseUrl, url); url is a string.
relativeUrl(baseUrl, url) ==
    IF ~Truthy(baseUrl) THEN url
    ELSE IF HasAt(url.str, 1, "/") THEN url
    ELSE IF MatchesFullUrl(url.str) THEN url
    ELSE JsString(baseUrl.str \o "/" \o url.str)

\* The strings of exactly n characters over an alphabet.
RECURSIVE StringsOfLen(_, _)
StringsOfLen(alphabet, n) ==
    IF n = 0 THEN {""}
    ELSE {s \o c : s \in StringsOfLen(alphabet, n - 1), c \in alphabet}

\* The URLs and base URLs relativeUrl is called with.
UrlAlphabet == {"a", "-", ":", "/"}
Urls == UNION {StringsOfLen(UrlAlphabet, n) : n \in 0..MaxUrlLen}
BaseUrls == {JsUndefined, JsString(""), JsString("/api"), JsString("a:")}

InitUrl ==
    /\ InitLifecycle
    /\ InitRike
    /\ arg \in {[fn |-> "relativeUrl", baseUrl |-> b, url |-> JsString(u)] :
                    b \in BaseUrls, u \in Urls}
    /\ result = <<>>
    /\ protocols = <<>>

\* The pending call of relativeUrl returns.
callRelativeUrl ==
    /\ result = <<>>
    /\ result' = <<relativeUrl(arg.baseUrl, arg.url)>>
    /\ UNCHANGED <<target, calls, observers, emitted, stopped, globalEvents,
                   globalStopped, lastCall, apiCalls, arg, protocols, statusVars>>

NextUrl == callRelativeUrl

SpecUrl == InitUrl /\ [][NextUrl]_vars

\* ========================================================= ng2-rike/error
JsArray(items) == [type |-> "array", items |-> items]
JsObject(fields) == [type |-> "object", fields |-> fields]
NoFields == [k \in {} |-> JsNull]

\* An @angular/http Response; headers is undefined or holds the Content-Type
\* (null when the header is missing), body is the text of the body: whether
\* JSON.parse accepts it and the value it gives.
Response(status, statusText, headers, body) ==
    [type |-> "Response", status |-> status, statusText |-> statusText,
     headers |-> headers, body |-> body]

Headers(contentType) == [contentType |-> contentType]
Unparsable == [parses |-> FALSE, json |-> JsUndefined]
Json(value) == [parses |-> TRUE, json |-> value]

\* new ErrorResponse(opts)
ErrorResponse(response, errors) ==
    [type |-> "ErrorResponse", response |-> response, errors |-> errors]

Nullish(v) == v.type \in {"undefined", "null"}

\* The own properties of an object.
OwnFields(v) ==
    CASE v.type = "object" -> v.fields
      [] v.type = "ErrorResponse" -> [response |-> v.response, errors |-> v.errors]
      [] v.type = "Response" ->
             [status |-> JsNumber(v.status), statusText |-> v.statusText]
      [] OTHER -> NoFields

\* v[key] of a value that is neither null nor undefined.
Get(v, key) ==
    IF key \in DOMAIN OwnFields(v) THEN OwnFields(v)[key] ELSE JsUndefined

\* v.toString() of a value that is neither null nor undefined; the items of
\* an array are joined by ",", null and undefined items giving "".
RECURSIVE JsToString(_)
RECURSIVE Join(_)
Join(items) ==
    IF items = <<>> THEN ""
    ELSE (IF Nullish(Head(items)) THEN "" ELSE JsToString(Head(items)))
         \o (IF Len(items) > 1 THEN "," \o Join(Tail(items)) ELSE "")

JsToString(v) ==
    CASE v.type = "string" -> v.str
      [] v.type = "number" -> ToString(v.num)
      [] v.type = "boolean" -> (IF v.bool THEN "true" ELSE "false")
      [] v.type = "array" -> Join(v.items)
      [] v.type = "Response" -> "Response with status: " \o ToString(v.status)
      [] OTHER -> "[object Object]"

\* String.prototype.toLowerCase
UpperCase == "ABCDEFGHIJKLMNOPQRSTUVWXYZ"
LowerCase == "abcdefghijklmnopqrstuvwxyz"
LowerChar(c) ==
    IF \E i \in 1..Len(UpperCase) : SubSeq(UpperCase, i, i) = c
    THEN LET i == CHOOSE j \in 1..Len(UpperCase) : SubSeq(UpperCase, j, j) = c
         IN  SubSeq(LowerCase, i, i)
    ELSE c

RECURSIVE toLowerCase(_)
toLowerCase(s) ==
    IF s = "" THEN "" ELSE LowerChar(Head(s)) \o toLowerCase(Tail(s))

\* syntheticResponse(error)
syntheticResponse(error) ==
    LET statusText == IF Nullish(error) THEN JsNull ELSE JsString(JsToString(error))
    IN  Response(500,
                 IF Truthy(statusText) THEN statusText ELSE JsString("Unknown error"),
                 JsUndefined, Unparsable)

\* defaultErrorResponse comparing the status text with "ok" as it is written.
defaultErrorResponseCaseSensitive(response) ==
    LET message == "ERROR " \o ToString(response.status)
        full == IF /\ Truthy(response.statusText)
                   /\ response.statusText.str # "ok"
                THEN message \o ": " \o response.statusText.str
                ELSE message
    IN  ErrorResponse(response,
            JsObject([k \in {"*"} |->
                JsArray(<<JsObject([code |-> JsString("HTTP" \o ToString(response.status)),
                                    message |-> JsString(full)])>>)]))

\* defaultErrorResponse(response)
defaultErrorResponse(response) ==
    LET message == "ERROR " \o ToString(response.status)
        full == IF /\ Truthy(response.statusText)
                   /\ toLowerCase(response.statusText.str) # "ok"
                THEN message \o ": " \o response.statusText.str
                ELSE message
    IN  ErrorResponse(response,
            JsObject([k \in {"*"} |->
                JsArray(<<JsObject([code |-> JsString("HTTP" \o ToString(response.status)),
                                    message |-> JsString(full)])>>)]))

\* toFieldError putting the text of a scalar into code instead of message.
toFieldErrorTextAsCode(data) ==
    IF Nullish(data) THEN JsObject([message |-> JsString("")])
    ELSE LET message == Get(data, "message")
             code == Get(data, "code")
         IN  IF /\ message.type = "string"
                /\ (Nullish(code) \/ code = JsString("string"))
             THEN data
             ELSE IF ~Nullish(message)
             THEN JsObject([code |-> IF ~Nullish(code) THEN JsString(JsToString(code))
                                     ELSE JsUndefined,
                            message |-> JsString(JsToString(message))])
             ELSE JsObject([code |-> JsString(JsToString(data))])

\* toFieldError(data)
toFieldError(data) ==
    IF Nullish(data) THEN JsObject([message |-> JsString("")])
    ELSE LET message == Get(data, "message")
             code == Get(data, "code")
         IN  IF /\ message.type = "string"
                /\ (Nullish(code) \/ code = JsString("string"))
             THEN data
             ELSE IF ~Nullish(message)
             THEN JsObject([code |-> IF ~Nullish(code) THEN JsString(JsToString(code))
                                     ELSE JsUndefined,
                            message |-> JsString(JsToString(message))])
             ELSE JsObject([message |-> JsString(JsToString(data))])

\* notEmptyError(item)
notEmptyError(item) ==
    Truthy(item) /\ (Truthy(Get(item, "message")) \/ Truthy(Get(item, "code")))

\* items.map(toFieldError).filter(notEmptyError)
RECURSIVE FieldErrorsOf(_)
FieldErrorsOf(items) ==
    IF items = <<>> THEN <<>>
    ELSE (IF notEmptyError(toFieldError(Head(items)))
          THEN <<toFieldError(Head(items))>> ELSE <<>>)
         \o FieldErrorsOf(Tail(items))

\* toFieldErrorArray(data)
toFieldErrorArray(data) ==
    IF Nullish(data) THEN <<>>
    ELSE IF data.type = "array" THEN FieldErrorsOf(data.items)
    ELSE FieldErrorsOf(<<data>>)

\* toFieldErrors(data): undefined, or the object of the field errors.
toFieldErrors(data) ==
    IF Nullish(data) THEN JsUndefined
    ELSE IF data.type = "array"
    THEN IF FieldErrorsOf(data.items) # <<>>
         THEN JsObject([k \in {"*"} |-> JsArray(FieldErrorsOf(data.items))])
         ELSE JsUndefined
    ELSE IF data.type \in {"string", "number", "boolean"}
    THEN IF notEmptyError(JsObject([message |-> JsString(JsToString(data))]))
         THEN JsObject([k \in {"*"} |->
                  JsArray(<<JsObject([message |-> JsString(JsToString(data))])>>)])
         ELSE JsUndefined
    ELSE LET errors == OwnFields(data)
             fields == {f \in DOMAIN errors : toFieldErrorArray(errors[f]) # <<>>}
         IN  IF fields # {}
             THEN JsObject([f \in fields |-> JsArray(toFieldErrorArray(errors[f]))])
             ELSE JsUndefined

Returned(value) == [threw |-> FALSE, value |-> value]
TypeError == [threw |-> TRUE, value |-> JsString("TypeError")]

\* The part of toErrorResponse that runs for an @angular/http Response.
ofResponse(response) ==
    IF response.headers = JsUndefined THEN TypeError
    ELSE LET body == IF /\ response.headers.contentType = JsString("application/json")
                        /\ response.body.parses
                     THEN response.body.json ELSE JsUndefined
             fieldErrors == toFieldErrors(body)
         IN  IF fieldErrors # JsUndefined
             THEN Returned(ErrorResponse(response, fieldErrors))
             ELSE Returned(defaultErrorResponse(response))

\* The part of toErrorResponse that runs for every other value.
ofOther(error) ==
    IF Nullish(error) THEN TypeError
    ELSE IF Get(error, "response").type = "Response" /\ Get(error, "errors").type = "array"
    THEN Returned(ErrorResponse(Get(error, "response"), Get(error, "errors")))
    ELSE IF toFieldErrors(error) # JsUndefined
    THEN Returned(ErrorResponse(syntheticResponse(JsNull), toFieldErrors(error)))
    ELSE Returned(defaultErrorResponse(syntheticResponse(error)))

\* toErrorResponse without its first test, for an ErrorResponse.
toErrorResponseAlwaysConverting(error) ==
    IF error.type = "Response" THEN ofResponse(error) ELSE ofOther(error)

\* toErrorResponse(error): what it returns, or the exception it raises.
toErrorResponse(error) ==
    IF error.type = "ErrorResponse" THEN Returned(error)
    ELSE IF error.type = "Response" THEN ofResponse(error)
    ELSE ofOther(error)

\* The values toErrorResponse is called with.
FieldNames == {"email", "name"}
Scalars ==
    {JsString(""), JsString("required"), JsNumber(0), JsNumber(42),
     JsBoolean(TRUE), JsBoolean(FALSE)}
FieldErrorObjects ==
    {JsObject([message |-> JsString("taken")]),
     JsObject([message |-> JsString("taken"), code |-> JsString("E1")]),
     JsObject([message |-> JsNumber(1), code |-> JsNumber(7)])}
Items == {JsNull, JsString(""), JsString("required")} \cup FieldErrorObjects

RECURSIVE SeqsOfLen(_, _)
SeqsOfLen(S, n) ==
    IF n = 0 THEN {<<>>}
    ELSE {Append(q, x) : q \in SeqsOfLen(S, n - 1), x \in S}

Arrays == {JsArray(q) : q \in UNION {SeqsOfLen(Items, n) : n \in 0..MaxItems}}
FieldValues ==
    {JsNull, JsString(""), JsString("required"), JsString("too short"),
     JsArray(<<JsString("a"), JsString("b")>>),
     JsObject([message |-> JsString("taken"), code |-> JsString("E1")])}
Payloads ==
    {JsObject(f) : f \in UNION {[S -> FieldValues] : S \in SUBSET FieldNames}}
JsonBodies ==
    {Unparsable, Json(JsNull), Json(JsObject(NoFields)), Json(JsArray(<<>>)),
     Json(JsObject([email |-> JsString("required")])),
     Json(JsArray(<<JsString("bad")>>)), Json(JsString("oops"))}
StatusTexts ==
    {JsNull, JsString(""), JsString("OK"), JsString("ok"), JsString("Ok"),
     JsString("Not Found")}
ContentTypes == {JsNull, JsString("application/json"), JsString("text/html")}
Responses ==
    {Response(status, statusText, Headers(contentType), body) :
        status \in {200, 404, 500}, statusText \in StatusTexts,
        contentType \in ContentTypes, body \in JsonBodies}
ErrorResponseOpts ==
    {JsObject([response |-> Response(404, JsString("Not Found"), Headers(JsNull), Unparsable),
               errors |-> a]) : a \in Arrays}
RawErrors ==
    {JsNull, JsUndefined} \cup Scalars \cup Arrays \cup Payloads
        \cup Responses \cup ErrorResponseOpts
Normalized ==
    {toErrorResponse(e).value : e \in {x \in RawErrors : ~toErrorResponse(x).threw}}
Errors == RawErrors \cup Normalized

InitError ==
    /\ InitLifecycle
    /\ InitRike
    /\ arg \in {[fn |-> "toErrorResponse", error |-> e] : e \in Errors}
    /\ result = <<>>
    /\ protocols = <<>>

\* The pending call of toErrorResponse returns or raises.
callToErrorResponse ==
    /\ result = <<>>
    /\ result' = <<toErrorResponse(arg.error)>>
    /\ UNCHANGED <<target, calls, observers, emitted, stopped, globalEvents,
                   globalStopped, lastCall, apiCalls, arg, protocols, statusVars>>

\* toErrorResponse is called with what it returned.
callToErrorResponseAgain ==
    /\ Len(result) = 1
    /\ ~result[1].threw
    /\ result' = Append(result, toErrorResponse(result[1].value))
    /\ UNCHANGED <<target, calls, observers, emitted, stopped, globalEvents,
                   globalStopped, lastCall, apiCalls, arg, protocols, statusVars>>

NextError ==
    \/ callToErrorResponse
    \/ callToErrorResponseAgain

SpecError == InitError /\ [][NextError]_vars

\* ====================================================== ng2-rike/protocol
\* A protocol node: its class, the node it wraps (_protocol,
\* _responseProtocol, _requestProtocol; 0 for a leaf), the function it was
\* given, its _after flag and its handleError property (0: undefined).  A
\* function is named by the call it was passed to; "update" is the closure
\* updateRequestWith builds, "targetPrepare" the one RikeTargetImpl.operation
\* builds around the protocol of the target.  call is the call that made the
\* node: the combinator, its receiver and its after argument.
NoFn == [kind |-> "none", id |-> 0]
UserFn(k) == [kind |-> "user", id |-> k]
UpdateFn(k) == [kind |-> "update", id |-> k]
TargetPrepareFn(tp) == [kind |-> "targetPrepare", id |-> tp]

Node(class, parent, fn, after, handler, call) ==
    [class |-> class, parent |-> parent, fn |-> fn, after |-> after,
     handleError |-> handler, call |-> call]

Call(by, receiver, after) == [by |-> by, receiver |-> receiver, after |-> after]

\* HTTP_PROTOCOL, JSON_PROTOCOL and a protocol class of the application
\* that defines all four hooks.
HTTP_PROTOCOL == 1
JSON_PROTOCOL == 2
CUSTOM_PROTOCOL == 3
Leaves ==
    <<Node("HttpProtocol", 0, NoFn, "omitted", 0, Call("new", 0, "omitted")),
      Node("JsonProtocol", 0, NoFn, "omitted", 0, Call("new", 0, "omitted")),
      Node("CustomProtocol", 0, NoFn, "omitted", CUSTOM_PROTOCOL,
           Call("new", 0, "omitted"))>>

\* What a hook did to the options or the response it was given.
Did(hook, k) == [hook |-> hook, by |-> k]

\* !after
Falsy(after) == after \in {"omitted", "false"}

\* heap[n].prepareRequest(options)
RECURSIVE prepareRequest(_, _, _)
prepareRequest(heap, n, options) ==
    LET node == heap[n]
        prepare(o) == IF node.fn.kind = "targetPrepare"
                      THEN prepareRequest(heap, node.fn.id, o)
                      ELSE Append(o, Did("prepare", node.fn.id))
    IN  CASE node.class \in {"HttpProtocol", "JsonProtocol"} -> options
          [] node.class = "CustomProtocol" ->
                 Append(options, Did("CustomProtocol.prepareRequest", n))
          [] node.class = "PrepareRequestProtocol" ->
                 IF ~Falsy(node.after)
                 THEN prepare(prepareRequest(heap, node.parent, options))
                 ELSE prepareRequest(heap, node.parent, prepare(options))
          [] OTHER -> prepareRequest(heap, node.parent, options)

\* heap[n].writeRequest(request, options)
RECURSIVE writeRequest(_, _, _)
writeRequest(heap, n, options) ==
    LET node == heap[n]
    IN  CASE node.class = "HttpProtocol" ->
                 Append(options, Did("HttpProtocol.writeRequest", n))
          [] node.class = "JsonProtocol" ->
                 Append(options, Did("JsonProtocol.writeRequest", n))
          [] node.class = "CustomProtocol" ->
                 Append(options, Did("CustomProtocol.writeRequest", n))
          [] node.class = "WriteRequestProtocol" ->
                 IF node.fn.kind = "user"
                 THEN Append(options, Did("write", node.fn.id))
                 ELSE IF Falsy(node.after)
                 THEN writeRequest(heap, node.parent,
                                   Append(options, Did("update", node.fn.id)))
                 ELSE Append(writeRequest(heap, node.parent, options),
                             Did("update", node.fn.id))
          [] OTHER -> writeRequest(heap, node.parent, options)

\* heap[n].readResponse(response)
RECURSIVE readResponseOf(_, _, _)
readResponseOf(heap, n, response) ==
    LET node == heap[n]
    IN  CASE node.class = "HttpProtocol" -> response
          [] node.class = "JsonProtocol" ->
                 Append(response, Did("JsonProtocol.readResponse", n))
          [] node.class = "CustomProtocol" ->
                 Append(response, Did("CustomProtocol.readResponse", n))
          [] node.class = "ReadResponseProtocol" ->
                 Append(response, Did("read", node.fn.id))
          [] OTHER -> readResponseOf(heap, node.parent, response)

\* heap[n].handleError: the handler function, 0 for undefined.
handleErrorOf(heap, n) == heap[n].handleError

\* All four hooks of node n, applied to fresh options and a fresh response.
Hooks(heap, n) ==
    [prepareRequest |-> prepareRequest(heap, n, <<>>),
     writeRequest |-> writeRequest(heap, n, <<>>),
     readResponse |-> readResponseOf(heap, n, <<>>),
     handleError |-> handleErrorOf(heap, n)]

\* The combinators: the heap after the call on receiver p; the new node is
\* the last one and names the function it was given.
prepareRequestWithIgnoringAfter(heap, p, after) ==
    Append(heap, Node("PrepareRequestProtocol", p, UserFn(Len(heap) + 1), "omitted",
                      heap[p].handleError, Call("prepareRequestWith", p, after)))

prepareRequestWith(heap, p, after) ==
    Append(heap, Node("PrepareRequestProtocol", p, UserFn(Len(heap) + 1), after,
                      heap[p].handleError, Call("prepareRequestWith", p, after)))

writeRequestWith(heap, p) ==
    Append(heap, Node("WriteRequestProtocol", p, UserFn(Len(heap) + 1), "omitted",
                      heap[p].handleError, Call("writeRequestWith", p, "omitted")))

updateRequestWithIgnoringAfter(heap, p, after) ==
    Append(heap, Node("WriteRequestProtocol", p, UpdateFn(Len(heap) + 1), "omitted",
                      heap[p].handleError, Call("updateRequestWith", p, after)))

updateRequestWith(heap, p, after) ==
    Append(heap, Node("WriteRequestProtocol", p, UpdateFn(Len(heap) + 1), after,
                      heap[p].handleError, Call("updateRequestWith", p, after)))

\* A readResponseWith that wraps the node the receiver wraps, whatever the
\* receiver is.
readResponseWithSkippingReceiver(heap, p) ==
    Append(heap, Node("ReadResponseProtocol",
                      IF heap[p].parent # 0 THEN heap[p].parent ELSE p,
                      UserFn(Len(heap) + 1), "omitted",
                      heap[IF heap[p].parent # 0 THEN heap[p].parent ELSE p].handleError,
                      Call("readResponseWith", p, "omitted")))

\* ReadResponseProtocol overrides it to wrap the node the receiver wraps.
readResponseWith(heap, p) ==
    LET parent == IF heap[p].class = "ReadResponseProtocol" THEN heap[p].parent ELSE p
    IN  Append(heap, Node("ReadResponseProtocol", parent, UserFn(Len(heap) + 1),
                          "omitted", heap[parent].handleError,
                          Call("readResponseWith", p, "omitted")))

\* A handleErrorWith that also sets the handler on its receiver.
handleErrorWithInPlace(heap, p) ==
    LET parent == IF heap[p].class = "HandleErrorProtocol" THEN heap[p].parent ELSE p
    IN  Append([heap EXCEPT ![p].handleError = Len(heap) + 1],
               Node("HandleErrorProtocol", parent, NoFn, "omitted", Len(heap) + 1,
                    Call("handleErrorWith", p, "omitted")))

\* HandleErrorProtocol overrides it to wrap the node the receiver wraps.
handleErrorWith(heap, p) ==
    LET parent == IF heap[p].class = "HandleErrorProtocol" THEN heap[p].parent ELSE p
    IN  Append(heap, Node("HandleErrorProtocol", parent, NoFn, "omitted", Len(heap) + 1,
                          Call("handleErrorWith", p, "omitted")))

\* An operation binding that runs the target's prepare hook last.
operationPreparingTargetLast(heap, tp, protocol) ==
    IF protocol = 0 \/ tp = HTTP_PROTOCOL THEN heap
    ELSE Append(heap, Node("PrepareRequestProtocol", protocol, TargetPrepareFn(tp),
                           "true", heap[protocol].handleError,
                           Call("operation", protocol, "omitted")))

\* RikeTargetImpl.operation(name, protocol) on a target whose protocol is
\* tp; protocol 0 is none.  The heap afterwards.
operation(heap, tp, protocol) ==
    IF protocol = 0 \/ tp = HTTP_PROTOCOL THEN heap
    ELSE Append(heap, Node("PrepareRequestProtocol", protocol, TargetPrepareFn(tp),
                           "omitted", heap[protocol].handleError,
                           Call("operation", protocol, "omitted")))

\* The protocol of the operation made by operation(name, protocol).
operationProtocol(heap, tp, protocol) ==
    IF protocol = 0 THEN tp
    ELSE IF tp = HTTP_PROTOCOL THEN protocol
    ELSE Len(heap) + 1

InitProtocol ==
    /\ InitLifecycle
    /\ InitRike
    /\ arg = <<>>
    /\ result = <<>>
    /\ protocols = Leaves

Afters == {"omitted", "false", "true"}

\* A combinator call of the application that takes the heap to made.
Combine(by, p, after, made) ==
    /\ p \in 1..Len(protocols)
    /\ Len(protocols) < Len(Leaves) + MaxProtocols
    /\ protocols' = made
    /\ arg' = <<Call(by, p, after)>>
    /\ result' = <<Len(made)>>
    /\ UNCHANGED <<target, calls, observers, emitted, stopped, globalEvents,
                   globalStopped, lastCall, apiCalls, statusVars>>

callPrepareRequestWith(p) ==
    \E after \in Afters :
        Combine("prepareRequestWith", p, after, prepareRequestWith(protocols, p, after))

callWriteRequestWith(p) ==
    Combine("writeRequestWith", p, "omitted", writeRequestWith(protocols, p))

callUpdateRequestWith(p) ==
    \E after \in Afters :
        Combine("updateRequestWith", p, after, updateRequestWith(protocols, p, after))

callReadResponseWith(p) ==
    Combine("readResponseWith", p, "omitted", readResponseWith(protocols, p))

callHandleErrorWith(p) ==
    Combine("handleErrorWith", p, "omitted", handleErrorWith(protocols, p))

\* target.operation(name, protocol) on a target whose protocol is tp.
callOperation(tp) ==
    /\ tp \in 1..Len(protocols)
    /\ Len(protocols) < Len(Leaves) + MaxProtocols
    /\ \E protocol \in 0..Len(protocols) :
        /\ protocols' = operation(protocols, tp, protocol)
        /\ arg' = <<Call("operation", tp, "omitted"), protocol>>
        /\ result' = <<operationProtocol(protocols, tp, protocol)>>
    /\ UNCHANGED <<target, calls, observers, emitted, stopped, globalEvents,
                   globalStopped, lastCall, apiCalls, statusVars>>

NextProtocol ==
    \/ \E p \in 1..(Len(Leaves) + MaxProtocols) : callPrepareRequestWith(p)
    \/ \E p \in 1..(Len(Leaves) + MaxProtocols) : callWriteRequestWith(p)
    \/ \E p \in 1..(Len(Leaves) + MaxProtocols) : callUpdateRequestWith(p)
    \/ \E p \in 1..(Len(Leaves) + MaxProtocols) : callReadResponseWith(p)
    \/ \E p \in 1..(Len(Leaves) + MaxProtocols) : callHandleErrorWith(p)
    \/ \E tp \in 1..(Len(Leaves) + MaxProtocols) : callOperation(tp)

SpecProtocol == InitProtocol /\ [][NextProtocol]_vars

\* ============================================== ng2-rike/rike: identifiers
\* new Rike(http, defaultHttpOptions, options): this._uniqueIdSeq = 0
Rike == [_uniqueIdSeq |-> 0]

\* _internals.generateUniqueId(): "" + ++_this._uniqueIdSeq; the service
\* after the call and the identifier returned.
generateUniqueId(rike) ==
    [rike |-> [rike EXCEPT !._uniqueIdSeq = @ + 1],
     id |-> ToString(rike._uniqueIdSeq + 1)]

\* No service has been constructed yet.
InitIds ==
    /\ InitLifecycle
    /\ arg = <<>>
    /\ result = <<>>
    /\ protocols = <<>>
    /\ rikes = <<>>
    /\ created = <<>>
    /\ rikeStatus = <<>>
    /\ applied = <<>>

\* The application (an injector of it) constructs a Rike service.
newRike ==
    /\ Len(rikes) < MaxRikes
    /\ rikes' = Append(rikes, Rike)
    /\ UNCHANGED <<target, calls, observers, emitted, stopped, globalEvents,
                   globalStopped, lastCall, apiCalls, arg, result, protocols,
                   created, rikeStatus, applied>>

\* rike.target(x) on service r: constructs a RikeTargetImpl, which takes its
\* identifier from the service's generateUniqueId.
rikeTarget(r) ==
    /\ r \in DOMAIN rikes
    /\ Len(created) < MaxTargets
    /\ LET generated == generateUniqueId(rikes[r])
       IN /\ rikes' = [rikes EXCEPT ![r] = generated.rike]
          /\ created' = Append(created, RikeTargetImpl(r, generated.id))
    /\ UNCHANGED <<target, calls, observers, emitted, stopped, globalEvents,
                   globalStopped, lastCall, apiCalls, arg, result, protocols,
                   rikeStatus, applied>>

NextIds ==
    \/ newRike
    \/ \E r \in 1..MaxRikes : rikeTarget(r)

SpecIds == InitIds /\ [][NextIds]_vars

\* ======================================================== ng2-rike/status
JsFunction(fn) == [type |-> "function", fn |-> fn]

\* The label functions of the application: "byId" labels a target by its
\* identifier.
CallLabelFn(fn, t) == JsString("#" \o t.uniqueId)

\* x || y
Or(x, y) == IF Truthy(x) THEN x ELSE y

\* A per-target status object {start, end}; {start} has no end.
TargetStatus(start, end) == [type |-> "targetStatus", start |-> start, end |-> end]

\* The object literals labelOf returns: {label: ..., <state>: true}.
StatusLabel(label, state) ==
    [type |-> "statusLabel", label |-> label,
     processing |-> IF state = "processing" THEN JsBoolean(TRUE) ELSE JsUndefined,
     failed |-> IF state = "failed" THEN JsBoolean(TRUE) ELSE JsUndefined,
     cancelled |-> IF state = "cancelled" THEN JsBoolean(TRUE) ELSE JsUndefined,
     succeed |-> IF state = "succeed" THEN JsBoolean(TRUE) ELSE JsUndefined]

evalLabel(status, label) ==
    IF ~Truthy(label) THEN JsUndefined
    ELSE IF label.type # "function" THEN label
    ELSE CallLabelFn(label.fn, status.start.target)

\* The branch labelOf takes: no end, end.cancel, end.error, otherwise.
StateOf(status) ==
    IF status.end = JsUndefined THEN "processing"
    ELSE IF EventCancel(status.end) THEN "cancelled"
    ELSE IF EventError(status.end) # Undefined THEN "failed"
    ELSE "succeed"

labelOf(status, labels) ==
    IF ~Truthy(labels) THEN JsUndefined
    ELSE LET state == StateOf(status)
             label == evalLabel(status, Get(labels, state))
         IN IF Truthy(label) THEN StatusLabel(label, state) ELSE label

combineLabels(combined, label) ==
    IF ~Truthy(label) THEN combined
    ELSE IF ~Truthy(combined)
    THEN [type |-> "combined", labels |-> <<label.label>>,
          processing |-> label.processing, failed |-> label.failed,
          cancelled |-> label.cancelled, succeed |-> label.succeed]
    ELSE [combined EXCEPT
             !.processing = Or(@, label.processing),
             !.failed = Or(@, label.failed),
             !.cancelled = Or(@, label.cancelled),
             !.succeed = Or(@, label.succeed),
             !.labels = IF \E i \in DOMAIN @ : @[i] = label.label
                        THEN @ ELSE Append(@, label.label)]

Labels(fields) == JsObject(fields)

DEFAULT_STATUS_LABELS ==
    JsObject(
        [id \in {"*", "load", "send", "read", "create", "update", "delete"} |->
            CASE id = "*" ->
                     Labels([processing |-> JsString("Processing"),
                             failed |-> JsString("Error"),
                             cancelled |-> JsString("Cancelled")])
              [] id = "load" -> Labels([processing |-> JsString("Loading")])
              [] id = "send" ->
                     Labels([processing |-> JsString("Sending"),
                             succeed |-> JsString("Sent")])
              [] id = "read" -> Labels([processing |-> JsString("Loading")])
              [] id = "create" ->
                     Labels([processing |-> JsString("Creating"),
                             succeed |-> JsString("Created")])
              [] id = "update" ->
                     Labels([processing |-> JsString("Updating"),
                             succeed |-> JsString("Updated")])
              [] id = "delete" ->
                     Labels([processing |-> JsString("Deleting"),
                             succeed |-> JsString("Deleted")])])

\* status.start.target.rike.options.defaultStatusLabels: the services are
\* constructed with the default options.
defaultStatusLabels(r) == DEFAULT_STATUS_LABELS

\* new RikeStatus()
RikeStatus ==
    [_targetStatuses |-> JsObject(NoFields), _labels |-> JsObject(NoFields),
     _combined |-> JsUndefined]

\* object[key] = value
Put(object, key, value) ==
    JsObject([k \in DOMAIN object.fields \cup {key} |->
                 IF k = key THEN value ELSE object.fields[k]])

\* withLabels that keeps the memoized combined status.
withLabelsKeepingCombined(this, operationOrLabels, labels) ==
    LET id == IF ~Truthy(labels) THEN "*" ELSE operationOrLabels.str
        set == IF ~Truthy(labels) THEN operationOrLabels ELSE labels
    IN [this EXCEPT !._labels = Put(@, id, set)]

\* withLabels(labels) and withLabels(operation, labels)
withLabels(this, operationOrLabels, labels) ==
    LET id == IF ~Truthy(labels) THEN "*" ELSE operationOrLabels.str
        set == IF ~Truthy(labels) THEN operationOrLabels ELSE labels
    IN [this EXCEPT !._combined = JsUndefined,
                    !._labels = Put(@, id, set)]

labelForDefaultsFirst(this, status) ==
    LET operationName == status.start.operation
        defaultLabels == Or(defaultStatusLabels(status.start.target.rike),
                            DEFAULT_STATUS_LABELS)
        label == Or(labelOf(status, Get(defaultLabels, operationName)),
                    labelOf(status, Get(defaultLabels, "*")))
    IN IF Truthy(label) THEN label
       ELSE Or(labelOf(status, Get(this._labels, operationName)),
               labelOf(status, Get(this._labels, "*")))

labelFor(this, status) ==
    LET operationName == status.start.operation
        label == Or(labelOf(status, Get(this._labels, operationName)),
                    labelOf(status, Get(this._labels, "*")))
        defaultLabels == Or(defaultStatusLabels(status.start.target.rike),
                            DEFAULT_STATUS_LABELS)
    IN IF Truthy(label) THEN label
       ELSE Or(labelOf(status, Get(defaultLabels, operationName)),
               labelOf(status, Get(defaultLabels, "*")))

\* The number an identifier was made from.
IdNumber(id) == CHOOSE n \in 0..MaxTargets : ToString(n) = id

\* for (key in object): the keys of _targetStatuses are the canonical
\* numeric strings generateUniqueId makes, which are enumerated in ascending
\* numeric order.
RECURSIVE ForIn(_)
ForIn(keys) ==
    IF keys = {} THEN <<>>
    ELSE LET first == CHOOSE k \in keys :
                          \A other \in keys : IdNumber(k) <= IdNumber(other)
         IN <<first>> \o ForIn(keys \ {first})

RECURSIVE CombineOver(_, _, _)
CombineOver(this, targetIds, combined) ==
    IF targetIds = <<>> THEN combined
    ELSE LET targetStatus == Get(this._targetStatuses, Head(targetIds))
         IN CombineOver(this, Tail(targetIds),
                        IF ~Truthy(targetStatus) THEN combined
                        ELSE combineLabels(combined, labelFor(this, targetStatus)))

\* The getter combined: the aggregator after the read and the value read.
combined(this) ==
    IF Truthy(this._combined) THEN [this |-> this, value |-> this._combined]
    ELSE LET value == CombineOver(this, ForIn(DOMAIN this._targetStatuses.fields),
                                  JsUndefined)
         IN [this |-> [this EXCEPT !._combined = value], value |-> value]

\* The getters labels, processing, failed, cancelled and succeed:
\* this.combined && this.combined.x || <default>
labels(this) ==
    LET value == combined(this).value
    IN IF Truthy(value) THEN value.labels ELSE <<>>

Flag(this, flag) ==
    LET value == combined(this).value
    IN IF Truthy(value) /\ Truthy(value[flag]) THEN value[flag]
       ELSE JsBoolean(FALSE)

processing(this) == Flag(this, "processing")
failed(this) == Flag(this, "failed")
cancelled(this) == Flag(this, "cancelled")
succeed(this) == Flag(this, "succeed")

\* applyEvent with a start event that updates the status in place.
applyEventKeepingEnd(this, event) ==
    LET uniqueId == event.target.uniqueId
        targetStatus == Get(this._targetStatuses, uniqueId)
    IN [this EXCEPT
           !._combined = JsUndefined,
           !._targetStatuses =
               IF ~EventComplete(event)
               THEN Put(@, uniqueId,
                        IF ~Truthy(targetStatus) THEN TargetStatus(event, JsUndefined)
                        ELSE [targetStatus EXCEPT !.start = event])
               ELSE IF ~Truthy(targetStatus)
               THEN Put(@, uniqueId, TargetStatus(event, event))
               ELSE Put(@, uniqueId, [targetStatus EXCEPT !.end = event])]

applyEventDroppingEnd(this, event) ==
    LET uniqueId == event.target.uniqueId
        targetStatus == Get(this._targetStatuses, uniqueId)
    IN [this EXCEPT
           !._combined = JsUndefined,
           !._targetStatuses =
               IF ~EventComplete(event)
               THEN Put(@, uniqueId, TargetStatus(event, JsUndefined))
               ELSE IF ~Truthy(targetStatus)
               THEN Put(@, uniqueId, TargetStatus(event, event))
               ELSE @]

applyEvent(this, event) ==
    LET uniqueId == event.target.uniqueId
        targetStatus == Get(this._targetStatuses, uniqueId)
    IN [this EXCEPT
           !._combined = JsUndefined,
           !._targetStatuses =
               IF ~EventComplete(event)
               THEN Put(@, uniqueId, TargetStatus(event, JsUndefined))
               ELSE IF ~Truthy(targetStatus)
               THEN Put(@, uniqueId, TargetStatus(event, event))
               ELSE Put(@, uniqueId, [targetStatus EXCEPT !.end = event])]

\* The operation names of the application.
StatusOperations == {"create", "load"}

\* The label sets the application overrides the defaults with.
UserLabels ==
    {<<JsString("create"),
       Labels([processing |-> JsString("Busy"), succeed |-> JsFunction("byId")])>>,
     <<Labels([failed |-> JsString("Oops"), succeed |-> JsString("Done")]),
       JsUndefined>>}

\* The operation the latest start event about target t was for.
RECURSIVE StartedOperation(_, _)
StartedOperation(events, t) ==
    IF events = <<>> THEN "create"
    ELSE LET last == events[Len(events)]
         IN IF last.target = t /\ ~EventComplete(last) THEN last.operation
            ELSE StartedOperation(SubSeq(events, 1, Len(events) - 1), t)

\* The events the emitters can deliver about target t: the start of any
\* operation, and the success, failure or cancellation of the one started.
EventsOn(t) ==
    LET op == StartedOperation(applied, t)
    IN {RikeOperationEvent(t, name, 0) : name \in StatusOperations}
       \cup {RikeSuccessEvent(t, op, 0, HttpResponse(0)),
             RikeErrorEvent(t, op, 0, HttpError(0)),
             RikeCancelEvent(t, op, 0, Undefined)}

\* Two services have constructed three targets, the first service two of
\* them; the application has constructed a status aggregator.
InitStatus ==
    /\ InitLifecycle
    /\ arg = <<>>
    /\ result = <<>>
    /\ protocols = <<>>
    /\ rikes = <<[_uniqueIdSeq |-> 2], [_uniqueIdSeq |-> 1]>>
    /\ created = <<RikeTargetImpl(1, "1"), RikeTargetImpl(1, "2"),
                   RikeTargetImpl(2, "1")>>
    /\ rikeStatus = RikeStatus
    /\ applied = <<>>

\* An emitter the aggregator is subscribed on delivers an event.
callApplyEvent(t) ==
    /\ Len(applied) < MaxEvents
    /\ \E event \in EventsOn(t) :
           /\ rikeStatus' = applyEvent(rikeStatus, event)
           /\ applied' = Append(applied, event)
    /\ UNCHANGED <<target, calls, observers, emitted, stopped, globalEvents,
                   globalStopped, lastCall, apiCalls, arg, result, protocols,
                   rikes, created>>

callWithLabels ==
    /\ \E args \in UserLabels :
           rikeStatus' = withLabels(rikeStatus, args[1], args[2])
    /\ UNCHANGED <<target, calls, observers, emitted, stopped, globalEvents,
                   globalStopped, lastCall, apiCalls, arg, result, protocols,
                   rikes, created, applied>>

\* The application reads the combined status through one of the getters.
callCombined ==
    /\ rikeStatus' = combined(rikeStatus).this
    /\ UNCHANGED <<target, calls, observers, emitted, stopped, globalEvents,
                   globalStopped, lastCall, apiCalls, arg, result, protocols,
                   rikes, created, applied>>

NextStatus ==
    \/ \E i \in 1..MaxTargets : i \in DOMAIN created /\ callApplyEvent(created[i])
    \/ callWithLabels
    \/ callCombined

SpecStatus == InitStatus /\ [][NextStatus]_vars

\* ============================================================== properties
Verbs == {"load", "send", "get", "post", "put", "delete", "patch", "head"}

\* The emit()/error() calls the step just taken made on its target's emitter.
EmittedByLastCall ==
    IF lastCall.api = "none" THEN <<>>
    ELSE SubSeq(emitted[lastCall.target], lastCall.mark + 1,
                Len(emitted[lastCall.target]))

\* The positions in target t's log of the events of one class about invocation c.
EventsAbout(t, class, c) ==
    {i \in 1..Len(emitted[t]) :
        emitted[t][i].event.class = class /\ emitted[t][i].event.call = c}

\* The events of a log that are about target t, in order.
RECURSIVE EventsOfTarget(_, _)
EventsOfTarget(log, t) ==
    IF log = <<>> THEN <<>>
    ELSE IF Head(log).event.target = t
         THEN <<Head(log).event>> \o EventsOfTarget(Tail(log), t)
         ELSE EventsOfTarget(Tail(log), t)

\* The error an observer or an error event should carry for the transport
\* error of subscription o: the operation's error handler applied to it, or
\* the error itself when the operation has no handler.
NormalizedError(o) ==
    IF OperationHandler(TargetOf(o), calls[observers[o].call].operation) = "none"
    THEN HttpError(o)
    ELSE handleError(HttpError(o))

\* ---------------------------------------------------------------------- C1
\* C1: whenever verb invocation c started while invocation a was in flight
\* on the same target, the target's emitter was handed exactly one cancel
\* event for a, its cancelledBy is the start event of c, and it comes
\* before the start event of c.
C1_SupersedeEmitsOneCancelBeforeStart ==
    \A c \in 1..Len(calls) :
        LET t == calls[c].target
            a == calls[c].superseded
        IN  a # 0 =>
                /\ Cardinality(EventsAbout(t, "cancel", a)) = 1
                /\ EventsAbout(t, "start", c) # {}
                /\ \A i \in EventsAbout(t, "cancel", a) :
                      /\ EventCancelledBy(emitted[t][i].event) = StartEventRef(c)
                      /\ \A j \in EventsAbout(t, "start", c) : i < j

\* ---------------------------------------------------------------------- C2
\* C2: after cancel() ran on a target with an active operation it has
\* returned true, the target's emitter was handed exactly one event by it,
\* a cancel event for that operation, and the target has no current
\* operation.
C2_CancelOfActiveOperation ==
    (lastCall.api = "cancel" /\ lastCall.operation # 0) =>
        /\ lastCall.ret = "true"
        /\ Len(EmittedByLastCall) = 1
        /\ EmittedByLastCall[1].event.class = "cancel"
        /\ EmittedByLastCall[1].event.call = lastCall.operation
        /\ currentOperation(lastCall.target) = "undefined"

\* ---------------------------------------------------------------------- C3
\* C3: a cancel() step on a target with no active operation returns false,
\* raises nothing, hands no event to any emitter and changes nothing of the
\* targets, the observers or the subscriptions.
C3_CancelOfIdleTargetIsNoOp ==
    [][\A t \in Targets :
          (/\ apiCalls' = apiCalls + 1
           /\ lastCall'.api = "cancel"
           /\ lastCall'.target = t
           /\ target[t].operation = 0)
          => (/\ lastCall'.ret = "false"
              /\ lastCall'.threw = Undefined
              /\ UNCHANGED <<target, calls, observers, emitted, stopped,
                             globalEvents, globalStopped>>)]_vars

\* cancel() ran on a target that is idle again after an operation on it:
\* the operation had started, was subscribed to and has ended.
C3_Witness ==
    /\ lastCall.api = "cancel"
    /\ lastCall.operation = 0
    /\ lastCall.ret = "false"
    /\ \E c \in 1..Len(calls) : EventsAbout(lastCall.target, "start", c) # {}
    /\ \E o \in 1..Len(observers) : TargetOf(o) = lastCall.target

\* ---------------------------------------------------------------------- C4
\* C4: on every target at most one transport subscription is live and at
\* most one subscribed observer is still open.
LiveSubscriptions(t) ==
    {o \in 1..Len(observers) : TargetOf(o) = t /\ observers[o].live}

OpenObservers(t) ==
    {o \in 1..Len(observers) : TargetOf(o) = t /\ ~observers[o].closed}

C4_AtMostOneLiveSubscription ==
    \A t \in Targets :
        /\ Cardinality(LiveSubscriptions(t)) <= 1
        /\ Cardinality(OpenObservers(t)) <= 1

\* ---------------------------------------------------------------------- C5
\* C5: a step that hands an error event to a target's emitter leaves that
\* target with no current operation.
C5_FailureReturnsTargetToIdle ==
    [][\A t \in Targets :
          (/\ Len(emitted'[t]) > Len(emitted[t])
           /\ emitted'[t][Len(emitted'[t])].event.class = "error")
          => target'[t].operation = 0]_vars

C7_TransportErrorIsNormalized ==
    \A o \in 1..Len(observers) :
        /\ \A i \in 1..Len(observers[o].received) :
              LET r == observers[o].received[i]
              IN  (r.kind = "error" /\ r.value.kind \in {"httpError", "errorResponse"})
                      => r.value = NormalizedError(o)
        /\ \A i \in 1..Len(emitted[TargetOf(o)]) :
              LET e == emitted[TargetOf(o)][i].event
              IN  (/\ e.class = "error"
                   /\ e.error.kind \in {"httpError", "errorResponse"}
                   /\ e.error.id = o)
                      => EventError(e) = NormalizedError(o)

C9_GlobalEmitterMirrorsTargets ==
    \A t \in Targets :
        EventsOfTarget(globalEvents, t) = EventsOfTarget(emitted[t], t)

\* --------------------------------------------------------------------- C10
\* C10: every cancel event is complete, is a cancel, and reports as its
\* error the same value as its cancelledBy; that value is the string
\* "cancel" when cancel() made the event and the superseding start event
\* when a verb method made it.
C10_CancelEventFields ==
    /\ \A t \in Targets :
          \A i \in 1..Len(emitted[t]) :
              LET e == emitted[t][i].event
              IN  e.class = "cancel" =>
                      /\ EventComplete(e)
                      /\ EventCancel(e)
                      /\ EventError(e) = EventCancelledBy(e)
    /\ \A i \in 1..Len(EmittedByLastCall) :
          LET e == EmittedByLastCall[i].event
          IN  e.class = "cancel" =>
                  /\ lastCall.api = "cancel" => EventCancelledBy(e) = CancelString
                  /\ lastCall.api \in Verbs
                         => EventCancelledBy(e) = StartEventRef(lastCall.id)

\* --------------------------------------------------------------------- C20
\* A URL scheme: a letter followed by letters, digits, "+", "-" and ".".
SchemeStart ==
    WordChars \ {"0", "1", "2", "3", "4", "5", "6", "7", "8", "9", "_"}

SchemeChars == (WordChars \ {"_"}) \cup {"+", "-", "."}

IsScheme(s) ==
    /\ s # ""
    /\ Head(s) \in SchemeStart
    /\ \A i \in 1..Len(s) : SubSeq(s, i, i) \in SchemeChars

\* url is scheme://... or //...
IsAbsoluteUrl(s) ==
    \/ HasAt(s, 1, "//")
    \/ \E k \in 1..Len(s) : IsScheme(SubSeq(s, 1, k)) /\ HasAt(s, k + 1, "://")

\* C20: relativeUrl(base, url) is url when base is empty or undefined, when
\* url begins with "/", or when url is scheme://... or //...; in every other
\* case it is base + "/" + url.
C20_RelativeUrlRule ==
    result # <<>> =>
        LET base == arg.baseUrl
            url == arg.url.str
        IN  IF \/ base = JsUndefined
               \/ base = JsString("")
               \/ HasAt(url, 1, "/")
               \/ IsAbsoluteUrl(url)
            THEN result[1] = JsString(url)
            ELSE result[1] = JsString(base.str \o "/" \o url)

\* --------------------------------------------------------------------- C11
\* C11: every call of toErrorResponse returns, and what it returns is an
\* error response: a transport response and an object of field errors.
C11_ToErrorResponseNeverFails ==
    result # <<>> =>
        /\ ~result[1].threw
        /\ result[1].value.type = "ErrorResponse"
        /\ result[1].value.response.type = "Response"
        /\ result[1].value.errors.type \in {"object", "array"}

\* --------------------------------------------------------------------- C12
\* C12: toErrorResponse applied to what toErrorResponse returned returns
\* the same value.
C12_ToErrorResponseIdempotent ==
    Len(result) = 2 => result[2] = result[1]

\* A transport response with a JSON body of field errors, converted twice.
C12_Witness ==
    /\ Len(result) = 2
    /\ arg.error.type = "Response"
    /\ result[1].value # arg.error
    /\ "email" \in DOMAIN result[2].value.errors.fields

\* --------------------------------------------------------------------- C13
\* The bodies that hold no errors.
BodiesWithoutErrors == {JsNull, JsObject(NoFields), JsArray(<<>>)}

NoFieldErrorsIn(response) ==
    \/ response.headers.contentType # JsString("application/json")
    \/ ~response.body.parses
    \/ response.body.json \in BodiesWithoutErrors

IsOkText(statusText) == statusText \in {"ok", "Ok", "oK", "OK"}

DefaultMessage(response) ==
    "ERROR " \o ToString(response.status)
        \o (IF /\ response.statusText \notin {JsNull, JsString("")}
               /\ ~IsOkText(response.statusText.str)
            THEN ": " \o response.statusText.str ELSE "")

\* C13: for a transport response that is not application/json, or whose body
\* does not parse, or whose body holds no errors, toErrorResponse returns
\* exactly one field error, under "*", with code "HTTP<status>" and message
\* "ERROR <status>", followed by ": <statusText>" iff the status text is
\* present and is not "ok" in any letter case.
C13_DefaultFieldError ==
    (result # <<>> /\ arg.error.type = "Response" /\ NoFieldErrorsIn(arg.error)) =>
        /\ ~result[1].threw
        /\ result[1].value.response = arg.error
        /\ DOMAIN result[1].value.errors.fields = {"*"}
        /\ result[1].value.errors.fields["*"] =
               JsArray(<<JsObject(
                   [code |-> JsString("HTTP" \o ToString(arg.error.status)),
                    message |-> JsString(DefaultMessage(arg.error))])>>)

\* Status 404 "Not Found" without a content type gave HTTP404, "ERROR 404:
\* Not Found".
C13_Witness ==
    /\ result # <<>>
    /\ arg.error.type = "Response"
    /\ arg.error.status = 404
    /\ arg.error.statusText = JsString("Not Found")
    /\ arg.error.headers.contentType = JsNull
    /\ Get(result[1].value.errors.fields["*"].items[1], "message")
           = JsString("ERROR 404: Not Found")
    /\ Get(result[1].value.errors.fields["*"].items[1], "code") = JsString("HTTP404")

\* --------------------------------------------------------------------- C14
\* A plain object with at least one field, every field a non-empty string.
IsStringPayload(v) ==
    /\ v.type = "object"
    /\ DOMAIN v.fields # {}
    /\ \A f \in DOMAIN v.fields : v.fields[f].type = "string" /\ v.fields[f].str # ""

\* C14: for a plain object mapping field names to non-empty strings
\* toErrorResponse returns field errors with the same field names, each a
\* list of one field error whose message is the string and whose code is
\* undefined.
C14_StringPayloadFieldErrors ==
    (result # <<>> /\ IsStringPayload(arg.error)) =>
        /\ ~result[1].threw
        /\ result[1].value.type = "ErrorResponse"
        /\ result[1].value.errors.type = "object"
        /\ DOMAIN result[1].value.errors.fields = DOMAIN arg.error.fields
        /\ \A f \in DOMAIN arg.error.fields :
              LET list == result[1].value.errors.fields[f]
              IN  /\ list.type = "array"
                  /\ Len(list.items) = 1
                  /\ Get(list.items[1], "message") = arg.error.fields[f]
                  /\ Get(list.items[1], "code") = JsUndefined

\* {"email": "required"} was converted.
C14_Witness ==
    /\ result # <<>>
    /\ arg.error = JsObject([email |-> JsString("required")])
    /\ ~result[1].threw
    /\ Get(result[1].value.errors.fields["email"].items[1], "message")
           = JsString("required")

\* --------------------------------------------------------------------- C15
\* C15: every node made by base.writeRequestWith(f).readResponseWith(g)
\* writes requests with f and reads responses with g, and prepares requests
\* and handles errors as base does.
C15_WriteThenReadKeepsBase ==
    \A r \in 1..Len(protocols) :
        LET w == protocols[r].call.receiver
        IN  (/\ protocols[r].call.by = "readResponseWith"
             /\ protocols[w].call.by = "writeRequestWith")
            => LET base == protocols[w].call.receiver
               IN  /\ writeRequest(protocols, r, <<>>) = <<Did("write", w)>>
                   /\ readResponseOf(protocols, r, <<>>) = <<Did("read", r)>>
                   /\ prepareRequest(protocols, r, <<>>)
                          = prepareRequest(protocols, base, <<>>)
                   /\ handleErrorOf(protocols, r) = handleErrorOf(protocols, base)

\* Such a node was made over the protocol of the application, which has a
\* prepare hook and an error handler of its own.
C15_Witness ==
    \E r \in 1..Len(protocols) :
        /\ protocols[r].call.by = "readResponseWith"
        /\ protocols[protocols[r].call.receiver].call.by = "writeRequestWith"
        /\ protocols[protocols[r].call.receiver].call.receiver = CUSTOM_PROTOCOL

\* --------------------------------------------------------------------- C16
Combinators ==
    {"prepareRequestWith", "writeRequestWith", "updateRequestWith",
     "readResponseWith", "handleErrorWith"}

\* C16: a combinator call returns a node that did not exist before, and all
\* four hooks of every node that existed before it behave as before.
C16_CombinatorsLeaveReceiverUnchanged ==
    [][/\ Len(protocols') >= Len(protocols)
       /\ \A n \in 1..Len(protocols) : Hooks(protocols', n) = Hooks(protocols, n)
       /\ (protocols' # protocols /\ arg'[1].by \in Combinators)
              => /\ result'[1] \notin 1..Len(protocols)
                 /\ result'[1] \in 1..Len(protocols')]_vars

\* A combinator was called on a node that a combinator had made.
C16_Witness ==
    /\ arg # <<>>
    /\ arg[1].by \in Combinators
    /\ arg[1].receiver > Len(Leaves)
    /\ protocols[arg[1].receiver].call.by \in Combinators
    /\ result[1] = Len(protocols)

\* --------------------------------------------------------------------- C17
\* C17: the node made by p.prepareRequestWith(fn, after) prepares with
\* fn(p.prepareRequest(options)) when after is true and with
\* p.prepareRequest(fn(options)) when after is false or omitted; it writes,
\* reads and handles errors as p does.
C17_PrepareRequestWith ==
    \A n \in 1..Len(protocols) :
        protocols[n].call.by = "prepareRequestWith" =>
            LET p == protocols[n].call.receiver
            IN  /\ prepareRequest(protocols, n, <<>>) =
                       IF protocols[n].call.after = "true"
                       THEN Append(prepareRequest(protocols, p, <<>>), Did("prepare", n))
                       ELSE prepareRequest(protocols, p, <<Did("prepare", n)>>)
                /\ writeRequest(protocols, n, <<>>) = writeRequest(protocols, p, <<>>)
                /\ readResponseOf(protocols, n, <<>>) = readResponseOf(protocols, p, <<>>)
                /\ handleErrorOf(protocols, n) = handleErrorOf(protocols, p)

\* prepareRequestWith(fn, true) was called on a node whose prepare hook
\* changes the options.
C17_Witness ==
    \E n \in 1..Len(protocols) :
        /\ protocols[n].call.by = "prepareRequestWith"
        /\ protocols[n].call.after = "true"
        /\ prepareRequest(protocols, protocols[n].call.receiver, <<>>) # <<>>

\* --------------------------------------------------------------------- C18
\* C18: the node made by p.updateRequestWith(fn, after) writes with
\* fn(body, p.writeRequest(body, options)) when after is true and with
\* p.writeRequest(body, fn(body, options)) when after is false or omitted;
\* it prepares, reads and handles errors as p does.
C18_UpdateRequestWith ==
    \A n \in 1..Len(protocols) :
        protocols[n].call.by = "updateRequestWith" =>
            LET p == protocols[n].call.receiver
            IN  /\ writeRequest(protocols, n, <<>>) =
                       IF protocols[n].call.after = "true"
                       THEN Append(writeRequest(protocols, p, <<>>), Did("update", n))
                       ELSE writeRequest(protocols, p, <<Did("update", n)>>)
                /\ prepareRequest(protocols, n, <<>>) = prepareRequest(protocols, p, <<>>)
                /\ readResponseOf(protocols, n, <<>>) = readResponseOf(protocols, p, <<>>)
                /\ handleErrorOf(protocols, n) = handleErrorOf(protocols, p)

\* updateRequestWith(fn, true) was called on a node made by
\* updateRequestWith(fn).
C18_Witness ==
    \E n \in 1..Len(protocols) :
        /\ protocols[n].call.by = "updateRequestWith"
        /\ protocols[n].call.after = "true"
        /\ protocols[protocols[n].call.receiver].call.by = "updateRequestWith"
        /\ protocols[protocols[n].call.receiver].call.after = "omitted"

\* --------------------------------------------------------------------- C19
\* C19: an operation made without a protocol has the protocol of its
\* target; made with protocol P on a target whose protocol is HTTP_PROTOCOL
\* it has P itself; otherwise its protocol prepares with P's prepare hook
\* applied to the result of the target protocol's, and writes and reads as
\* P does.
C19_OperationBinding ==
    (arg # <<>> /\ arg[1].by = "operation") =>
        LET tp == arg[1].receiver
            P == arg[2]
            op == result[1]
        IN  IF P = 0 THEN op = tp
            ELSE IF tp = HTTP_PROTOCOL THEN op = P
            ELSE /\ prepareRequest(protocols, op, <<>>) =
                        prepareRequest(protocols, P, prepareRequest(protocols, tp, <<>>))
                 /\ writeRequest(protocols, op, <<>>) = writeRequest(protocols, P, <<>>)
                 /\ readResponseOf(protocols, op, <<>>) = readResponseOf(protocols, P, <<>>)

\* An operation was made with a protocol on a target with another
\* protocol, both with prepare hooks that change the options.
C19_Witness ==
    /\ arg # <<>>
    /\ arg[1].by = "operation"
    /\ arg[2] # 0
    /\ arg[2] # arg[1].receiver
    /\ prepareRequest(protocols, arg[1].receiver, <<>>) # <<>>
    /\ prepareRequest(protocols, arg[2], <<>>) # <<>>

\* ------------------------------------------------------- status aggregator
\* C21: with the default labels and no override, a fresh aggregator that is
\* given the start event and then the success event of the same target, for
\* an operation with a default succeed label, reads succeed = true,
\* processing = failed = cancelled = false and exactly the one label of that
\* operation ("Created" for "create").
SucceedLabel(op) ==
    CASE op = "send" -> JsString("Sent")
      [] op = "create" -> JsString("Created")
      [] op = "update" -> JsString("Updated")
      [] op = "delete" -> JsString("Deleted")

StartThenSuccess ==
    /\ Len(applied) = 2
    /\ applied[1].class = "start"
    /\ applied[2].class = "success"
    /\ applied[1].target = applied[2].target
    /\ applied[1].operation \in {"send", "create", "update", "delete"}
    /\ DOMAIN rikeStatus._labels.fields = {}

C21_StartThenSuccessIsSucceed ==
    StartThenSuccess =>
        /\ succeed(rikeStatus) = JsBoolean(TRUE)
        /\ processing(rikeStatus) = JsBoolean(FALSE)
        /\ failed(rikeStatus) = JsBoolean(FALSE)
        /\ cancelled(rikeStatus) = JsBoolean(FALSE)
        /\ labels(rikeStatus) = <<SucceedLabel(applied[1].operation)>>

\* The two events were applied and the status was read.
C21_Witness ==
    /\ StartThenSuccess
    /\ Truthy(rikeStatus._combined)
    /\ labels(rikeStatus) = <<JsString("Created")>>

\* The status of target t as the events applied so far make it: a start
\* event begins a new status, a terminal event ends the one there is.
RECURSIVE StatusFrom(_, _)
StatusFrom(events, t) ==
    IF events = <<>> THEN JsUndefined
    ELSE LET last == events[Len(events)]
             before == StatusFrom(SubSeq(events, 1, Len(events) - 1), t)
         IN IF last.target # t THEN before
            ELSE IF ~EventComplete(last) THEN TargetStatus(last, JsUndefined)
            ELSE IF before = JsUndefined THEN TargetStatus(last, last)
            ELSE [before EXCEPT !.end = last]

\* The label the status of the i-th target resolves to, if any.
ResolvedLabel(i) ==
    LET status == StatusFrom(applied, created[i])
    IN IF status = JsUndefined THEN JsUndefined
       ELSE labelFor(rikeStatus, status)

\* C22: the combined status over the targets has each of the flags
\* processing, failed, cancelled and succeed true iff the resolved label of
\* at least one target carries it, and its label list holds every distinct
\* resolved label exactly once, in the order in which the targets, taken by
\* ascending identifier, first show it.
C22_CombinedStatus ==
    LET labelled == {i \in DOMAIN created : Truthy(ResolvedLabel(i))}
        list == labels(rikeStatus)
        FirstSeen(label) ==
            CHOOSE n \in 0..MaxTargets :
                /\ \E i \in labelled : /\ ResolvedLabel(i).label = label
                                       /\ IdNumber(created[i].uniqueId) = n
                /\ \A i \in labelled :
                       ResolvedLabel(i).label = label =>
                           n <= IdNumber(created[i].uniqueId)
    IN /\ \A flag \in {"processing", "failed", "cancelled", "succeed"} :
              Flag(rikeStatus, flag) = JsBoolean(TRUE)
                  <=> \E i \in labelled : Truthy(ResolvedLabel(i)[flag])
       /\ {list[k] : k \in DOMAIN list} = {ResolvedLabel(i).label : i \in labelled}
       /\ \A k, m \in DOMAIN list : k < m => list[k] # list[m]
       /\ \A k, m \in DOMAIN list : k < m => FirstSeen(list[k]) <= FirstSeen(list[m])

\* C23: the label of a target's status comes from the first of the user
\* override for the operation name, the user override for "*", the default
\* for the operation name and the default for "*" that has a label for the
\* state of the status; it has none when none of them has.
C23_LabelResolutionOrder ==
    \A id \in DOMAIN rikeStatus._targetStatuses.fields :
        LET status == rikeStatus._targetStatuses.fields[id]
            name == status.start.operation
            sets == <<Get(rikeStatus._labels, name), Get(rikeStatus._labels, "*"),
                      Get(DEFAULT_STATUS_LABELS, name), Get(DEFAULT_STATUS_LABELS, "*")>>
            LabelIn(set) ==
                IF set = JsUndefined THEN JsUndefined
                ELSE evalLabel(status, Get(set, StateOf(status)))
            defining == {k \in 1..4 : Truthy(LabelIn(sets[k]))}
            found == labelFor(rikeStatus, status)
        IN IF defining = {} THEN ~Truthy(found)
           ELSE /\ Truthy(found)
                /\ found.label =
                       LabelIn(sets[CHOOSE k \in defining : \A m \in defining : k <= m])
                /\ Truthy(found[StateOf(status)])

\* A succeeded "create" whose label comes from the override for "*", which
\* shadows the default for "create".
C23_Witness ==
    \E id \in DOMAIN rikeStatus._targetStatuses.fields :
        LET status == rikeStatus._targetStatuses.fields[id]
        IN /\ status.start.operation = "create"
           /\ StateOf(status) = "succeed"
           /\ Get(rikeStatus._labels, "create") = JsUndefined
           /\ labelFor(rikeStatus, status).label = JsString("Done")

\* C24: any two targets constructed, by the same service or by different
\* ones, have different identifiers, and the one constructed later has the
\* greater identifier.
C24_UniqueMonotonicIds ==
    \A i, j \in DOMAIN created :
        i < j => /\ created[i].uniqueId # created[j].uniqueId
                 /\ IdNumber(created[i].uniqueId) < IdNumber(created[j].uniqueId)

\* ------------------------------------------------- response stream wrapper
\* C25: after the caller has unsubscribed from the stream of the operation
\* in flight, the transport subscription is unsubscribed and the target's
\* record is cleared: the target is idle.
C25_CallerUnsubscribeCleansUp ==
    (/\ lastCall.api = "unsubscribe"
     /\ lastCall.operation # 0
     /\ lastCall.operation = observers[lastCall.id].call) =>
        /\ ~observers[lastCall.id].live
        /\ target[lastCall.target] = Idle

\* Verb invocation c has been cancelled, or superseded by a later
\* invocation on its target.
Stale(c) ==
    \/ calls[c].cancelled
    \/ \E later \in (c + 1)..Len(calls) : calls[later].target = calls[c].target

\* C26: a subscription to the stream of an operation that has been
\* superseded or cancelled is ignored: it makes no transport subscription,
\* installs no observer, delivers and emits nothing, and leaves the record
\* of the target, the newer operation's, as it is.
C26_StaleSubscribeIsNoOp ==
    [][\A c \in 1..Len(calls) :
          (/\ apiCalls' = apiCalls + 1
           /\ lastCall'.api = "subscribe"
           /\ lastCall'.id = c
           /\ Stale(c))
          => /\ lastCall'.ret = "ignored"
             /\ UNCHANGED <<target, observers, emitted, stopped, globalEvents,
                            globalStopped, calls>>]_vars

\* The stream of a superseded operation was subscribed to while the newer
\* operation was in flight.
C26_Witness ==
    /\ lastCall.api = "subscribe"
    /\ lastCall.ret = "ignored"
    /\ \E later \in (lastCall.id + 1)..Len(calls) :
           /\ calls[later].target = lastCall.target
           /\ target[lastCall.target].operation = later
           /\ target[lastCall.target].response = later

\* C27: after the cleanup that the transport's completion or error runs,
\* the transport subscription is unsubscribed, the four fields of the record
\* (operation, response stream, observer, subscription) are cleared, and
\* running the cleanup again changes nothing.
C27_CleanupClearsRecord ==
    lastCall.api \in {"httpError", "httpComplete"} =>
        /\ ~observers[lastCall.id].live
        /\ target[lastCall.target] = Idle
        /\ cleanup(World, lastCall.target) = World

C29_TransportError ==
    [][\A o \in 1..Len(observers) :
          LET c == observers[o].call
              t == calls[c].target
              throws == ~observers[o].closed /\ observers[o].errorCallback = "throws"
          IN  (/\ lastCall'.api = "httpError"
               /\ lastCall'.id = o
               /\ observers[o].live
               /\ ~observers'[o].live)
              => /\ ~observers[o].closed =>
                        observers'[o].received =
                            Append(observers[o].received,
                                   [kind |-> "error", value |-> HttpError(o)])
                 /\ emitted'[t] =
                        Append(emitted[t],
                               IF throws
                               THEN [chan |-> "error",
                                     event |-> RikeErrorEvent(t, calls[c].operation, c,
                                                   Exception("observerError", o))]
                               ELSE [chan |-> "next",
                                     event |-> RikeErrorEvent(t, calls[c].operation, c,
                                                   HttpError(o))])
                 /\ lastCall'.threw = Undefined
                 /\ target'[t] = Idle]_vars

\* C30: when the transport delivers a response that decodes, the decoded
\* value reaches the caller's observer before the success event is emitted:
\* a success event is emitted unless the observer's next callback throws,
\* and its result is the value the observer received.
C30_DecodedValueThenSuccess ==
    (lastCall.api = "httpNext" /\ lastCall.input = "decodes") =>
        LET o == lastCall.id
            value == readResponse(HttpResponse(o))
            received == {i \in 1..Len(observers[o].received) :
                            observers[o].received[i].kind = "next"}
            successes == {i \in 1..Len(EmittedByLastCall) :
                             EmittedByLastCall[i].event.class = "success"}
            threw == received # {} /\ observers[o].nextCallback = "throws"
        IN  /\ threw => successes = {}
            /\ ~threw => Cardinality(successes) = 1
            /\ \A i \in successes :
                   /\ EventResult(EmittedByLastCall[i].event) = value
                   /\ \E k \in received : observers[o].received[k].value = value

\* --------------------------------------------------------------------- C31
\* The positions in the events applied of the events about the target
\* identifier id, of its start events and of its terminal events.
AppliedAbout(id) == {i \in 1..Len(applied) : applied[i].target.uniqueId = id}
StartsAbout(id) == {i \in AppliedAbout(id) : ~EventComplete(applied[i])}
TerminalsAbout(id) == {i \in AppliedAbout(id) : EventComplete(applied[i])}

\* The greatest and the least member of a non-empty set of positions; 0 for
\* the empty set.
Last(positions) ==
    IF positions = {} THEN 0
    ELSE CHOOSE i \in positions : \A j \in positions : j <= i
First(positions) ==
    IF positions = {} THEN 0
    ELSE CHOOSE i \in positions : \A j \in positions : i <= j

\* C31 as stated: every target identifier in the map has a start event
\* (complete = false) in its start slot, and an end event iff a terminal
\* event about it was applied after its latest start event.
C31_StartSlotHoldsStartEvent ==
    \A id \in DOMAIN rikeStatus._targetStatuses.fields :
        LET status == rikeStatus._targetStatuses.fields[id]
        IN /\ ~EventComplete(status.start)
           /\ status.end # JsUndefined
                  <=> \E i \in TerminalsAbout(id) : i > Last(StartsAbout(id))

\* C31 amended: the map has an entry for exactly the target identifiers an
\* event was applied about; its start slot holds the latest start event
\* about the identifier or, when none was applied, the first terminal event
\* about it; it has an end event iff a terminal event about the identifier
\* was applied after the latest start event, and the end is the latest such
\* event: a start event discards the end there was.
C31_MapFollowsEvents ==
    /\ DOMAIN rikeStatus._targetStatuses.fields =
           {applied[i].target.uniqueId : i \in 1..Len(applied)}
    /\ \A id \in DOMAIN rikeStatus._targetStatuses.fields :
           LET status == rikeStatus._targetStatuses.fields[id]
               start == Last(StartsAbout(id))
               after == {i \in TerminalsAbout(id) : i > start}
           IN /\ status.start =
                     applied[IF start = 0 THEN First(TerminalsAbout(id)) ELSE start]
              /\ status.end # JsUndefined <=> after # {}
              /\ after # {} => status.end = applied[Last(after)]

\* An entry made by a terminal event about an identifier no start event had
\* been applied about, and an entry whose end a later start event discarded.
C31_Witness ==
    \E id, other \in DOMAIN rikeStatus._targetStatuses.fields :
        /\ StartsAbout(id) = {}
        /\ EventComplete(rikeStatus._targetStatuses.fields[id].start)
        /\ TerminalsAbout(other) # {}
        /\ Last(StartsAbout(other)) > Last(TerminalsAbout(other))
        /\ rikeStatus._targetStatuses.fields[other].end = JsUndefined

\* --------------------------------------------------------------------- C32
\* C32: whatever events, label overrides and reads came before, a memoized
\* combined status equals the combined status recomputed from the map and
\* the labels there are now, so a read never returns a stale status.
C32_CombinedNeverStale ==
    LET fresh == [rikeStatus EXCEPT !._combined = JsUndefined]
    IN /\ combined(rikeStatus).value = combined(fresh).value
       /\ labels(rikeStatus) = labels(fresh)
       /\ \A flag \in {"processing", "failed", "cancelled", "succeed"} :
              Flag(rikeStatus, flag) = Flag(fresh, flag)

\* A status was read, memoized, and is still memoized while events and
\* label overrides have been applied.
C32_Witness ==
    /\ Truthy(rikeStatus._combined)
    /\ Len(rikeStatus._combined.labels) = 2
    /\ DOMAIN rikeStatus._labels.fields # {}
    /\ Len(applied) = MaxEvents

\* --------------------------------------------------------------------- C33
\* C33: of the payloads result, error and cancelledBy an event reports only
\* those of its variant: a success event its result, an error event that is
\* no cancel its error, a cancel event its cause (whether a verb method or
\* cancel() made it) and no result, a start event none.
C33_PayloadSlots ==
    \A t \in Targets :
        \A i \in 1..Len(emitted[t]) :
            LET e == emitted[t][i].event
                populated == {slot \in {"result", "error", "cancelledBy"} :
                                 CASE slot = "result" -> EventResult(e) # Undefined
                                   [] slot = "error" -> EventError(e) # Undefined
                                   [] slot = "cancelledBy" ->
                                          EventCancelledBy(e) # Undefined}
            IN CASE e.class = "start" -> populated = {}
                 [] e.class = "success" -> populated = {"result"}
                 [] e.class = "error" -> populated = {"error"}
                 [] e.class = "cancel" ->
                        "cancelledBy" \in populated /\ "result" \notin populated


\* ------------------------------------------------- event order on a target
\* The events handed to target t's emitter, by emit() or error(), in order.
EventsOf(t) == [i \in 1..Len(emitted[t]) |-> emitted[t][i].event]

Terminal(e) == e.class \in {"success", "error", "cancel"}

\* The position of the latest start event before position i, 0 if none.
StartBefore(events, i) ==
    Last({j \in 1..(i - 1) : events[j].class = "start"})

\* C34: on a target's emitter every success, error or cancel event of an
\* operation comes after the start event of that same operation, and no
\* start event of another operation lies between the two.
C34_TerminalAfterOwnStart ==
    \A t \in Targets :
        \A i \in 1..Len(emitted[t]) :
            LET events == EventsOf(t)
                j == StartBefore(events, i)
            IN  Terminal(events[i]) =>
                    /\ j # 0
                    /\ events[j].call = events[i].call


\* C35: a started operation has at most one terminal event: between its
\* start event and the next start event on the same target at most one of
\* success, error and cancel is emitted for it.
C35_AtMostOneTerminal ==
    \A t \in Targets :
        \A i, k \in 1..Len(emitted[t]) :
            LET events == EventsOf(t)
            IN  /\ i < k
                /\ Terminal(events[i])
                /\ Terminal(events[k])
                /\ events[i].call = events[k].call
                => \E j \in (i + 1)..(k - 1) : events[j].class = "start"


\* ------------------------------------------- deliveries after cancellation
\* Verb invocation c was cancelled by cancel(), or was in flight when a
\* later verb method on its target replaced it.
CancelledOrSuperseded(c) ==
    \/ calls[c].cancelled
    \/ \E later \in (c + 1)..Len(calls) : calls[later].superseded = c

\* C37: once an operation has been cancelled or superseded, a delivery of
\* its transport stream (value, error or completion) is forwarded to no
\* caller, emits no event, and leaves the record of the target, which may be
\* a newer operation's, as it is.
C37_NoDeliveryAfterCancel ==
    [][\A o \in 1..Len(observers) :
          (/\ lastCall'.api \in {"httpNext", "httpError", "httpComplete"}
           /\ lastCall'.id = o
           /\ observers[o].live
           /\ CancelledOrSuperseded(observers[o].call))
          => /\ \A p \in 1..Len(observers) :
                    observers'[p].received = observers[p].received
             /\ UNCHANGED <<target, emitted, globalEvents>>]_vars


\* ------------------------------------------------- independence of targets
\* C39: targets are independent: a verb method, cancel(), a subscription or
\* a transport delivery of one target leaves the in-flight record of every
\* other target as it is and hands no event to another target's own emitter.
C39_TargetsAreIndependent ==
    [][\A t, u \in Targets :
          (lastCall'.target = t /\ u # t)
          => /\ target'[u] = target[u]
             /\ emitted'[u] = emitted[u]
             /\ stopped'[u] = stopped[u]]_vars

\* An operation of one target was cancelled, or ended by its transport,
\* while an operation of the other target was in flight and subscribed.
C39_Witness ==
    \E t, u \in Targets :
        /\ u # t
        /\ lastCall.target = t
        /\ lastCall.api \in {"cancel", "httpComplete", "httpError"}
        /\ lastCall.operation # 0
        /\ target[t].operation = 0
        /\ InFlight(u) # 0
        /\ target[u].observer # 0
        /\ emitted[u] # <<>>


\* ------------------------------------------------ non-empty field errors
\* The duck-typed {response, errors} object toErrorResponse hands back as
\* an error response without converting its errors.
IsDuckTyped(v) ==
    /\ ~Nullish(v)
    /\ Get(v, "response").type = "Response"
    /\ Get(v, "errors").type = "array"

\* C40: for every input that is neither an error response already nor a
\* duck-typed {response, errors} object, toErrorResponse returns field
\* errors with at least one field, every field lists at least one error
\* item, and every error item has a non-empty code or a non-empty message.
C40_NonEmptyFieldErrors ==
    (/\ result # <<>>
     /\ arg.error.type # "ErrorResponse"
     /\ ~IsDuckTyped(arg.error)) =>
        /\ ~result[1].threw
        /\ result[1].value.errors.type = "object"
        /\ DOMAIN result[1].value.errors.fields # {}
        /\ \A f \in DOMAIN result[1].value.errors.fields :
              LET list == result[1].value.errors.fields[f]
              IN  /\ list.type = "array"
                  /\ list.items # <<>>
                  /\ \A n \in 1..Len(list.items) :
                        \/ Truthy(Get(list.items[n], "message"))
                        \/ Truthy(Get(list.items[n], "code"))


\* ------------------------------------------- aggregator on a live emitter
\* The target object Rike.target made for target t: the service has made
\* the two targets in this order.
TargetObject(t) == IF t = "users" THEN created[1] ELSE created[2]

\* The event as the emitter's subscribers get it, its target the object.
EventAbout(e) == [e EXCEPT !.target = TargetObject(e.target)]

\* RikeStatus.subscribeOn(events), from before the first call handed to the
\* emitter: events.subscribe(next) applies what emit() delivers; error()
\* ends the subscription, and no error callback was given to apply its event.
RECURSIVE subscribeOn(_, _)
subscribeOn(this, log) ==
    IF log = <<>> THEN this
    ELSE IF Head(log).chan # "next" THEN this
    ELSE subscribeOn(applyEvent(this, EventAbout(Head(log).event)), Tail(log))

\* The aggregator that has applied every event of the log.
RECURSIVE ApplyEvery(_, _)
ApplyEvery(this, log) ==
    IF log = <<>> THEN this
    ELSE ApplyEvery(applyEvent(this, EventAbout(Head(log).event)), Tail(log))

\* C38: an aggregator attached with subscribeOn to a target's emitter, or to
\* the global one, has applied every event handed to that emitter, those
\* handed over by error() included; after cancel() on an active, subscribed
\* operation its status has processing = false and cancelled = true.
C38_AggregatorAppliesEveryEvent ==
    [][\A t \in Targets :
          LET status == subscribeOn(RikeStatus, emitted'[t])
              global == subscribeOn(RikeStatus, globalEvents')
          IN  /\ status._targetStatuses
                     = ApplyEvery(RikeStatus, emitted'[t])._targetStatuses
              /\ global._targetStatuses
                     = ApplyEvery(RikeStatus, globalEvents')._targetStatuses
              /\ (/\ apiCalls' = apiCalls + 1
                  /\ lastCall'.api = "cancel"
                  /\ lastCall'.target = t
                  /\ target[t].operation # 0
                  /\ target[t].observer # 0)
                 => /\ processing(status) = JsBoolean(FALSE)
                    /\ cancelled(status) = JsBoolean(TRUE)]_vars


\* ------------------------------------------------- every operation ends
\* The start event of verb invocation c was handed to its target's emitter.
Started(c) ==
    \E i \in 1..Len(emitted[calls[c].target]) :
        LET e == emitted[calls[c].target][i].event
        IN  e.class = "start" /\ e.call = c

\* The transport stream of verb invocation c has ended: a subscription to
\* it has failed, completed or been unsubscribed.
TransportEnded(c) ==
    \E o \in 1..Len(observers) : observers[o].call = c /\ ~observers[o].live

\* C36: every started operation gets a terminal event (success, error or
\* cancel) on its target's emitter once its transport stream has ended, with
\* a value, an error or a completion without a value, or the operation has
\* been cancelled or superseded. The handlers of those deliveries and calls
\* are the only places that emit a terminal event and they emit it before
\* they return, so the event the claim promises for later is in the log of
\* the state they leave.
C36_StartedOperationEnds ==
    \A c \in 1..Len(calls) :
        (Started(c) /\ (TransportEnded(c) \/ CancelledOrSuperseded(c)))
        => \E i, k \in 1..Len(emitted[calls[c].target]) :
               LET events == EventsOf(calls[c].target)
               IN  /\ i < k
                   /\ events[i].class = "start"
                   /\ events[i].call = c
                   /\ Terminal(events[k])
                   /\ events[k].call = c

====
